---------------------------- MODULE Spec2Model ----------------------------
(***************************************************************************)
(* A model of the browser-side risk scoring engine of 198-Project:         *)
(*   recursive_analyzer.js (RecursiveAnalyzer) and app_firestore.js        *)
(*   (normalisation, the four scoring strategies, flattenPacketDocs, the   *)
(*   snapshot subscription and the strategy switch).                       *)
(*                                                                         *)
(* Numbers.  JavaScript numbers are IEEE doubles; TLC has 32-bit integers. *)
(* Sensor readings are modelled as natural numbers.  Derived quantities    *)
(* (means, standard deviations, trend, scores) are fixed-point integers in *)
(* thousandths (SCALE), rounded down.  Variances are kept as exact         *)
(* fractions.  The one non-finite double the code can produce on finite    *)
(* input, NaN, is modelled by the distinguished value NaN, which every     *)
(* arithmetic operator below propagates the way Math.min/Math.max/+ do.    *)
(***************************************************************************)
EXTENDS Integers, Sequences, FiniteSets, TLC

VARIABLES
    analyzer,       \* the RecursiveAnalyzer object: windows and sensors
    SCORING_MODE,   \* app_firestore.js: let SCORING_MODE
    clusterModel,   \* app_firestore.js: let clusterModel
    unsubscribe,    \* app_firestore.js: let unsubscribe (NoSub = null)
    live,           \* the subscriptions of the store that still deliver
    loadPending,    \* the loadClusterModel() call has not settled yet
    uiReady,        \* ui.js: initUI has run (els.status is set)
    connected,      \* ui.js: els.status.dataset.state
    series,         \* the value returned by the last flattenPacketDocs call
    scored,         \* that series before its truncation to MAX_POINTS
    batch,          \* the documents handed to the last flattenPacketDocs call
    now,            \* Date.now() read by the last flattenPacketDocs call
    hist,           \* per channel, the values fed to addSample since reset()
    lastOp,         \* the operation that produced the current state
    arg,            \* the call in progress: a direct call of a pure function,
                    \* or the batch the snapshot callback is flattening
    ret,            \* the value that call returned, or the points pushed so far
    queue           \* the tasks waiting for the running callback to return

vars == <<analyzer, SCORING_MODE, clusterModel, loadPending, unsubscribe, live,
          uiReady, connected, series, scored, batch, now, hist, lastOp, arg, ret,
          queue>>

---------------------------------------------------------------------------
(* Fixed point and integer helpers                                         *)

SCALE == 1000

NaN == -2000000000
Infinity == 2000000000

\* The element of a one-element set.  The(\{F(x) : x \in \{v\}\}) is F applied
\* to the value of v, computed once before F uses it (a const binding).
The(S) == CHOOSE r \in S : TRUE

Min2(a, b) == IF a <= b THEN a ELSE b
Max2(a, b) == IF a >= b THEN a ELSE b
AbsI(a) == IF a < 0 THEN -a ELSE a

\* floor(a*b/c) for a, b >= 0 and c > 0; where the product a*b would pass
\* 2^31 - 1 it is not formed: MulDivQR returns quotient and remainder of (r*b)/c for r < c by binary
\* expansion of b.
RECURSIVE MulDivQR(_, _, _)
MulDivQR(r, b, c) ==
    IF b = 0 THEN [q |-> 0, r |-> 0]
    ELSE LET h == MulDivQR(r, b \div 2, c)
             t == 2 * h.r + (IF b % 2 = 1 THEN r ELSE 0)
         IN  [q |-> 2 * h.q + (t \div c), r |-> t % c]

MulDiv(a, b, c) ==
    IF b = 0 \/ a <= 2147483647 \div b THEN (a * b) \div c
    ELSE (a \div c) * b + MulDivQR(a % c, b, c).q

\* floor(sqrt(n)) by bisection
RECURSIVE ISqrtIn(_, _, _)
ISqrtIn(n, lo, hi) ==
    IF lo >= hi THEN lo
    ELSE LET mid == (lo + hi + 1) \div 2
         IN  IF mid <= n \div mid THEN ISqrtIn(n, mid, hi)
             ELSE ISqrtIn(n, lo, mid - 1)

ISqrt(n) == IF n <= 0 THEN 0 ELSE ISqrtIn(n, 1, Min2(n, 46340))

\* Sum of f over s[lo..hi], halving the range
RECURSIVE SumRange(_, _, _)
SumRange(s, lo, hi) ==
    IF lo > hi THEN 0
    ELSE IF lo = hi THEN s[lo]
    ELSE LET mid == (lo + hi) \div 2
         IN  SumRange(s, lo, mid) + SumRange(s, mid + 1, hi)

RECURSIVE SumSqRange(_, _, _)
SumSqRange(s, lo, hi) ==
    IF lo > hi THEN 0
    ELSE IF lo = hi THEN s[lo] * s[lo]
    ELSE LET mid == (lo + hi) \div 2
         IN  SumSqRange(s, lo, mid) + SumSqRange(s, mid + 1, hi)

\* Math.sqrt of the fraction v.num / v.den, in thousandths.  The radicand is
\* scaled by the largest power of 100 that keeps it in range, so small
\* values keep a resolution of 0.001 and large ones four significant digits.
RootMilli(v) ==
    LET whole == v.num \div v.den
    IN  IF v.num <= 0 THEN 0
        ELSE IF whole < 2000 THEN ISqrt(MulDiv(v.num, 1000000, v.den))
        ELSE IF whole < 200000 THEN 10 * ISqrt(MulDiv(v.num, 10000, v.den))
        ELSE IF whole < 20000000 THEN 100 * ISqrt(MulDiv(v.num, 100, v.den))
        ELSE 1000 * ISqrt(whole)

\* Math.tanh in thousandths: round(1000*tanh(k/10)) for k = 0..60, linear
\* in between, 1 from 6.0 on, odd.
TanhTable ==
    <<0, 100, 197, 291, 380, 462, 537, 604, 664, 716, 762, 800, 834, 862,
      885, 905, 922, 935, 947, 956, 964, 970, 976, 980, 984, 987, 989, 991,
      993, 994, 995, 996, 997, 997, 998, 998, 999, 999, 999, 999, 999, 999,
      1000, 1000, 1000, 1000, 1000, 1000, 1000, 1000, 1000, 1000, 1000,
      1000, 1000, 1000, 1000, 1000, 1000, 1000, 1000>>

TanhPos(x) ==
    IF x >= 6 * SCALE THEN SCALE
    ELSE LET k == x \div 100
             f == x % 100
         IN  TanhTable[k + 1] + ((TanhTable[k + 2] - TanhTable[k + 1]) * f) \div 100

tanh(x) == IF x >= 0 THEN TanhPos(x) ELSE -TanhPos(-x)

\* clamp01 (app_firestore.js) and the Math.max(0, Math.min(1, x)) of the
\* analyzer: Math.min and Math.max return NaN when an argument is NaN.
clamp01(x) == IF x = NaN THEN NaN ELSE Max2(0, Min2(SCALE, x))

---------------------------------------------------------------------------
(* RecursiveAnalyzer (recursive_analyzer.js)                               *)

SensorNames == {"hr", "spo2", "temp", "accel"}

DEFAULT_LONG_WINDOW == 1500
DEFAULT_SHORT_WINDOW == 150
DEFAULT_MIN_SAMPLES == 100

\* The windows the app's analyzer is constructed with, scaled down so that
\* a bounded run fills and overflows them (order MIN < SHORT < LONG kept).
LongWindow == 6
ShortWindow == 4
MinSamples == 3

ZeroVar == [num |-> 0, den |-> 1]

\* HUGE stands for a finite sample, such as 1e200, whose square is beyond
\* the range of a double and beside which every ordinary sample vanishes
\* (1e200 + 70 = 1e200).  InfVar is the variance Infinity.
HUGE == 1000000
InfVar == [num |-> 1, den |-> 0]
HugeCount(s, lo, hi) == Cardinality({i \in lo..hi : s[i] = HUGE})

initSensor ==
    [buffer |-> <<>>, longMean |-> 0, longVar |-> ZeroVar, shortMean |-> 0,
     shortVar |-> ZeroVar, trend |-> 0, anomalyScore |-> 0]

\* constructor(opts): a missing (0) option takes the default
RecursiveAnalyzer(opts) ==
    [LONG_WINDOW  |-> IF opts.longWindow  = 0 THEN DEFAULT_LONG_WINDOW  ELSE opts.longWindow,
     SHORT_WINDOW |-> IF opts.shortWindow = 0 THEN DEFAULT_SHORT_WINDOW ELSE opts.shortWindow,
     MIN_SAMPLES  |-> IF opts.minSamples  = 0 THEN DEFAULT_MIN_SAMPLES  ELSE opts.minSamples,
     sensors      |-> [n \in SensorNames |-> initSensor]]

\* computeStats(arr) on the slice s[lo..hi].  Welford's recurrence yields
\* mean = sum/n and m2 = sum of squared deviations; variance = m2/(n-1) is
\* kept as the exact fraction (n*sumsq - sum^2) / (n*(n-1)), 0 when n <= 1.
\* On a slice that holds HUGE k times the mean is k/n of it; between HUGE and
\* another value delta * (arr[i] - mean) overflows, so m2 and the variance
\* are Infinity, and they are 0 when every value is HUGE.
computeStats(s, lo, hi) ==
    LET n   == hi - lo + 1
        sm  == SumRange(s, lo, hi)
        sq  == SumSqRange(s, lo, hi)
        k   == HugeCount(s, lo, hi)
    IN  IF n <= 0 THEN [mean |-> 0, sum |-> 0, variance |-> ZeroVar, count |-> 0]
        ELSE IF k > 0
        THEN [mean     |-> ((k * HUGE) \div n) * SCALE,
              sum      |-> k * HUGE,
              variance |-> IF k < n THEN InfVar ELSE ZeroVar,
              count    |-> n]
        ELSE [mean     |-> (sm * SCALE) \div n,
              sum      |-> sm,
              variance |-> IF n > 1 THEN [num |-> n * sq - sm * sm, den |-> n * (n - 1)]
                           ELSE ZeroVar,
              count    |-> n]

\* Math.sqrt(Math.max(variance, 1e-6)) in thousandths: at least 0.001
StdOf(v) == IF v.den = 0 THEN Infinity ELSE Max2(1, RootMilli(v))

\* _updateStats(sensorName) applied to one sensor state
updateStatsFull(an, state) ==
    LET buf        == state.buffer
        len        == Len(buf)
        longStart  == Max2(0, len - an.LONG_WINDOW)
        longEnd    == Max2(longStart + 1, (len * 6) \div 10)
        longStats  == computeStats(buf, longStart + 1, Min2(longEnd, len))
        shortStart == Max2(0, len - an.SHORT_WINDOW)
        shortStats == computeStats(buf, shortStart + 1, len)
        longStd    == StdOf(longStats.variance)
        shortStd   == StdOf(shortStats.variance)
        \* shortMean - longMean as an exact fraction d / (n1*n2)
        d          == shortStats.sum * longStats.count - longStats.sum * shortStats.count
        dn         == longStats.count * shortStats.count
        diffAbs    == MulDiv(AbsI(d), SCALE, dn)
        \* a finite difference over Infinity is 0; a difference of the order
        \* of HUGE over a finite deviation is of that order
        meanShift  == IF longStd = Infinity THEN 0
                      ELSE IF 2 * AbsI(d) >= HUGE THEN HUGE * SCALE
                      ELSE MulDiv(diffAbs, SCALE, longStd)
        trend      == IF d < 0 THEN -meanShift ELSE meanShift
        \* Infinity / Infinity is NaN
        varianceSurge == IF shortStd = Infinity /\ longStd = Infinity THEN NaN
                         ELSE IF shortStd = Infinity THEN Infinity
                         ELSE IF longStd = Infinity THEN 0
                         ELSE MulDiv(shortStd, SCALE, Max2(longStd, 1))
        surge      == IF varianceSurge = Infinity THEN SCALE
                      ELSE tanh(varianceSurge - SCALE)
        raw        == IF varianceSurge = NaN THEN NaN
                      ELSE (600 * tanh(meanShift) + 400 * surge) \div SCALE
    IN  [state EXCEPT !.longMean = longStats.mean,
                      !.longVar = longStats.variance,
                      !.shortMean = shortStats.mean,
                      !.shortVar = shortStats.variance,
                      !.trend = trend,
                      !.anomalyScore = clamp01(raw)]

\* A slip of _updateStats: the history guard compares with <= MIN_SAMPLES - 2,
\* so statistics start one sample early.
updateStatsEarly(an, state) ==
    IF Len(state.buffer) < an.MIN_SAMPLES - 1
    THEN [state EXCEPT !.anomalyScore = 0]
    ELSE updateStatsFull(an, state)

updateStats(an, state) ==
    IF Len(state.buffer) < an.MIN_SAMPLES
    THEN [state EXCEPT !.anomalyScore = 0]
    ELSE updateStatsFull(an, state)

\* A slip of addSample: the oldest value is evicted as soon as the buffer
\* reaches LONG_WINDOW, so it never holds more than LONG_WINDOW - 1 values.
pushEvictAtLimit(an, buf, value) ==
    LET b == Append(buf, value)
    IN  IF Len(b) >= an.LONG_WINDOW THEN Tail(b) ELSE b

\* A slip of addSample: the newest value is dropped when the buffer is full.
pushEvictNewest(an, buf, value) ==
    IF Len(buf) + 1 > an.LONG_WINDOW THEN buf ELSE Append(buf, value)

\* buffer.push(value); if (length > LONG_WINDOW) buffer.shift()
pushEvict(an, buf, value) ==
    LET b == Append(buf, value)
    IN  IF Len(b) > an.LONG_WINDOW THEN Tail(b) ELSE b

\* addSample(sensorName, value): unknown sensor names are ignored
addSample(an, sensorName, value) ==
    IF sensorName \notin DOMAIN an.sensors THEN an
    ELSE LET state == an.sensors[sensorName]
             st1   == [state EXCEPT !.buffer = pushEvict(an, state.buffer, value)]
         IN  [an EXCEPT !.sensors[sensorName] = updateStats(an, st1)]

\* computeRisk(): fixed-weight sum of the four anomaly scores, clamped
computeRisk(an) ==
    LET scores == [n \in SensorNames |-> an.sensors[n].anomalyScore]
        risk   == IF \E n \in SensorNames : scores[n] = NaN THEN NaN
                  ELSE (350 * scores["hr"] + 300 * scores["spo2"]
                        + 200 * scores["accel"] + 150 * scores["temp"]) \div SCALE
    IN  [score |-> clamp01(risk), components |-> scores]

\* A slip of reset(): the accelerometer channel is not reinitialised.
resetSkipAccel(an) ==
    [an EXCEPT !.sensors = [n \in SensorNames |->
                              IF n = "accel" THEN an.sensors[n] ELSE initSensor]]

\* reset(): initSensor for each of the four sensors
reset(an) == [an EXCEPT !.sensors = [n \in SensorNames |-> initSensor]]

---------------------------------------------------------------------------
(* SampleNormalizer (app_firestore.js: toNumArr, findField,                *)
(* extractSensorArrays)                                                    *)
(*                                                                         *)
(* A raw value of a document is [kind, v]: kind "array" with v the         *)
(* sequence of its elements, kind "string" with v the sequence of its      *)
(* characters, kind "number" with v = <<n>>, or kind "null".  A document   *)
(* is [id, data] with data a function from the field names it has to raw   *)
(* values.                                                                 *)

INTRA_PACKET_INTERVAL_MS == 200
PACKETS_FETCH == 8
MAX_POINTS == 600
BLEND_ALPHA == 500

HR_DIFF_MAX == 30
SPO2_MIN == 85
SPO2_MAX == 100
ACCEL_MAX == 30
TEMP_BASE == 37
TEMP_DEV_MAX == 3

FIELD_CANDIDATES ==
    [hr        |-> <<"HR", "hr", "heart_rate", "bpm">>,
     spo2      |-> <<"SPO2", "spo2", "SpO2">>,
     temp      |-> <<"Temp", "temp", "temperature">>,
     magnitude |-> <<"Magnitude", "magnitude", "mag">>,
     acx       |-> <<"AcX", "acx", "accel_x", "ax">>,
     acy       |-> <<"AcY", "acy", "accel_y", "ay">>,
     acz       |-> <<"AcZ", "acz", "accel_z", "az">>]

NoKey == ""
Absent == [has |-> FALSE, v |-> <<>>]

\* Raw values.  A string is the sequence of its characters; the elements of
\* an array are raw values themselves.  Arr builds an array of numbers.
Num(n) == [kind |-> "number", v |-> <<n>>]
Str(chars) == [kind |-> "string", v |-> chars]
Null == [kind |-> "null", v |-> <<>>]
ArrOf(elems) == [kind |-> "array", v |-> elems]
Arr(v) == ArrOf([i \in 1..Len(v) |-> Num(v[i])])

Digits == <<"0", "1", "2", "3", "4", "5", "6", "7", "8", "9">>
IsDigit(c) == \E d \in 1..Len(Digits) : Digits[d] = c
DigitVal(c) == (CHOOSE d \in 1..Len(Digits) : Digits[d] = c) - 1

\* String.prototype.split(','): the segments between the commas
RECURSIVE split(_)
split(s) ==
    IF s = <<>> THEN << <<>> >>
    ELSE LET rest == split(Tail(s))
         IN  IF Head(s) = "," THEN << <<>> >> \o rest
             ELSE << <<Head(s)>> \o rest[1] >> \o Tail(rest)

\* String.prototype.trim
RECURSIVE trimStart(_)
trimStart(s) == IF s # <<>> /\ Head(s) = " " THEN trimStart(Tail(s)) ELSE s

RECURSIVE trimEnd(_)
trimEnd(s) ==
    IF s # <<>> /\ s[Len(s)] = " " THEN trimEnd(SubSeq(s, 1, Len(s) - 1)) ELSE s

trim(s) == trimEnd(trimStart(s))

\* the value of a run of decimal digits
RECURSIVE DecimalValue(_)
DecimalValue(s) ==
    IF s = <<>> THEN 0
    ELSE 10 * DecimalValue(SubSeq(s, 1, Len(s) - 1)) + DigitVal(s[Len(s)])

\* Number(string): white space is trimmed, the empty string is 0, a signed
\* decimal integer is its value, "Infinity" is infinite, anything else NaN
StringToNumber(s) ==
    LET t    == trim(s)
        body == IF t # <<>> /\ t[1] = "-" THEN Tail(t) ELSE t
        neg  == t # <<>> /\ t[1] = "-"
    IN  IF t = <<>> THEN 0
        ELSE IF body = <<"I", "n", "f", "i", "n", "i", "t", "y">>
             THEN (IF neg THEN -Infinity ELSE Infinity)
        ELSE IF body # <<>> /\ \A i \in 1..Len(body) : IsDigit(body[i])
             THEN (IF neg THEN -DecimalValue(body) ELSE DecimalValue(body))
        ELSE NaN

\* Number(v) for a raw value v: a number is itself, null is 0, an array
\* goes through its string form
RECURSIVE Number(_)
Number(v) ==
    IF v.kind = "number" THEN v.v[1]
    ELSE IF v.kind = "string" THEN StringToNumber(v.v)
    ELSE IF v.kind = "null" THEN 0
    ELSE IF v.v = <<>> THEN 0
    ELSE IF Len(v.v) = 1 /\ v.v[1].kind # "array" THEN Number(v.v[1])
    ELSE NaN

isFinite(n) == n \notin {NaN, Infinity, -Infinity}

\* A slip of the element conversion: the Number.isFinite test is left out.
finiteOrZeroUnchecked(n) == n

\* Number.isFinite(n) ? n : 0
finiteOrZero(n) == IF isFinite(n) THEN n ELSE 0

\* value.split(',').map(s => s.trim()).filter(Boolean), as an array of strings
splitTrimFilter(s) ==
    LET parts == [i \in 1..Len(split(s)) |-> trim(split(s)[i])]
        kept  == SelectSeq(parts, LAMBDA p : p # <<>>)
    IN  [i \in 1..Len(kept) |-> Str(kept[i])]

\* toNumArr(value): null -> [], a string -> its comma-separated segments,
\* an array -> its elements, each as a finite number or 0; a scalar number
\* (not iterable) -> []
toNumArr(value) ==
    IF value.kind = "array"
    THEN [i \in 1..Len(value.v) |-> finiteOrZero(Number(value.v[i]))]
    ELSE IF value.kind = "string"
    THEN [i \in 1..Len(splitTrimFilter(value.v)) |->
            finiteOrZero(Number(splitTrimFilter(value.v)[i]))]
    ELSE <<>>

\* findField(data, candidates): the first candidate that is a key of data
\* with a non-null value, else null
RECURSIVE findFieldFrom(_, _, _)
findFieldFrom(data, candidates, k) ==
    IF k > Len(candidates) THEN NoKey
    ELSE IF candidates[k] \in DOMAIN data /\ data[candidates[k]].kind # "null"
         THEN candidates[k]
         ELSE findFieldFrom(data, candidates, k + 1)

\* A slip: the last candidate that qualifies wins instead of the first.
findFieldLast(data, candidates) ==
    IF \A k \in 1..Len(candidates) :
          candidates[k] \notin DOMAIN data \/ data[candidates[k]].kind = "null"
    THEN NoKey
    ELSE candidates[CHOOSE k \in 1..Len(candidates) :
                      /\ candidates[k] \in DOMAIN data
                      /\ data[candidates[k]].kind # "null"
                      /\ \A j \in (k + 1)..Len(candidates) :
                            candidates[j] \notin DOMAIN data
                            \/ data[candidates[j]].kind = "null"]

findField(data, candidates) == findFieldFrom(data, candidates, 1)

Resolve(data, key) ==
    IF key = NoKey THEN Absent ELSE [has |-> TRUE, v |-> toNumArr(data[key])]

\* extractSensorArrays(data): out.hr, out.spo2, out.temp, out.mag; a channel
\* with no key is left out of the result (has = FALSE)
extractSensorArrays(data) ==
    LET hrKey   == findField(data, FIELD_CANDIDATES.hr)
        spo2Key == findField(data, FIELD_CANDIDATES.spo2)
        tempKey == findField(data, FIELD_CANDIDATES.temp)
        magKey  == findField(data, FIELD_CANDIDATES.magnitude)
        axKey   == findField(data, FIELD_CANDIDATES.acx)
        ayKey   == findField(data, FIELD_CANDIDATES.acy)
        azKey   == findField(data, FIELD_CANDIDATES.acz)
        ax      == Resolve(data, axKey).v
        ay      == Resolve(data, ayKey).v
        az      == Resolve(data, azKey).v
        L       == Min2(Len(ax), Min2(Len(ay), Len(az)))
    IN  [hr   |-> Resolve(data, hrKey),
         spo2 |-> Resolve(data, spo2Key),
         temp |-> Resolve(data, tempKey),
         mag  |-> IF magKey # NoKey THEN Resolve(data, magKey)
                  ELSE IF axKey # NoKey /\ ayKey # NoKey /\ azKey # NoKey
                       THEN [has |-> TRUE,
                             \* Number.isFinite(v) ? v : 0: the square of an
                             \* extreme component is Infinity
                             v |-> [i \in 1..L |->
                                      IF HUGE \in {AbsI(ax[i]), AbsI(ay[i]), AbsI(az[i])}
                                      THEN 0
                                      ELSE ISqrt(ax[i] * ax[i] + ay[i] * ay[i]
                                                 + az[i] * az[i])]]
                       ELSE Absent]

---------------------------------------------------------------------------
(* The four scoring strategies.  A sensors argument is                     *)
(* [hrArr, spo2Arr, magArr, tempArr] (sequences, [] for a missing channel) *)
(* and idx is the 0-based sample index.                                    *)

\* arr[idx] != null
HasAt(arr, idx) == idx >= 0 /\ idx < Len(arr)

\* Number(arr[idx]): NaN for an index outside the array (undefined)
NumberAt(arr, idx) == IF HasAt(arr, idx) THEN arr[idx + 1] ELSE NaN

\* Number(arr[idx] || 0): 0 for an index outside the array
NumberOrZeroAt(arr, idx) == IF HasAt(arr, idx) THEN arr[idx + 1] ELSE 0

normalizeSpo2Risk(arr, idx) ==
    IF ~HasAt(arr, idx) THEN 0
    ELSE LET clamped == Max2(SPO2_MIN, Min2(SPO2_MAX, arr[idx + 1]))
         IN  clamp01(((SPO2_MAX - clamped) * SCALE) \div (SPO2_MAX - SPO2_MIN))

normalizeHRVProxy(hrArr, idx) ==
    IF Len(hrArr) = 0 THEN 0
    ELSE LET prev == IF idx > 0 THEN NumberAt(hrArr, idx - 1)
                     ELSE NumberOrZeroAt(hrArr, idx)
             curr == NumberOrZeroAt(hrArr, idx)
             diff == IF prev = NaN THEN NaN ELSE AbsI(curr - prev)
         IN  clamp01(IF diff = NaN THEN NaN ELSE (diff * SCALE) \div HR_DIFF_MAX)

normalizeAccelRisk(arr, idx) ==
    IF ~HasAt(arr, idx) THEN 0
    ELSE clamp01((arr[idx + 1] * SCALE) \div ACCEL_MAX)

normalizeTempRisk(arr, idx) ==
    IF ~HasAt(arr, idx) THEN 0
    ELSE clamp01((AbsI(arr[idx + 1] - TEMP_BASE) * SCALE) \div TEMP_DEV_MAX)

\* computeCombinedScore: 0.35*hrv + 0.30*spo2 + 0.20*accel + 0.15*temp
computeCombinedScore(sensors, idx) ==
    LET hrv   == normalizeHRVProxy(sensors.hrArr, idx)
        spo2  == normalizeSpo2Risk(sensors.spo2Arr, idx)
        accel == normalizeAccelRisk(sensors.magArr, idx)
        temp  == normalizeTempRisk(sensors.tempArr, idx)
        score == IF hrv = NaN THEN NaN
                 ELSE (350 * hrv + 300 * spo2 + 200 * accel + 150 * temp) \div SCALE
    IN  [score |-> clamp01(score), method |-> "weighted",
         components |-> [hrv |-> hrv, spo2 |-> spo2, accel |-> accel, temp |-> temp]]

\* The addSample calls of computeRiskRecursive, in the code's order
FeedOrder ==
    <<[name |-> "hr", arr |-> "hrArr"], [name |-> "spo2", arr |-> "spo2Arr"],
      [name |-> "accel", arr |-> "magArr"], [name |-> "temp", arr |-> "tempArr"]>>

RECURSIVE FeedFrom(_, _, _, _)
FeedFrom(an, sensors, idx, k) ==
    IF k > Len(FeedOrder) THEN an
    ELSE LET ch == FeedOrder[k]
         IN  FeedFrom(IF HasAt(sensors[ch.arr], idx)
                      THEN addSample(an, ch.name, sensors[ch.arr][idx + 1])
                      ELSE an,
                      sensors, idx, k + 1)

\* A slip: a value equal to the newest one the channel holds is taken for a
\* repeat and not fed again.
RECURSIVE FeedDistinctFrom(_, _, _, _)
FeedDistinctFrom(an, sensors, idx, k) ==
    IF k > Len(FeedOrder) THEN an
    ELSE LET ch  == FeedOrder[k]
             buf == an.sensors[ch.name].buffer
         IN  FeedDistinctFrom(IF /\ HasAt(sensors[ch.arr], idx)
                                 /\ ~(buf # <<>> /\ buf[Len(buf)] = sensors[ch.arr][idx + 1])
                              THEN addSample(an, ch.name, sensors[ch.arr][idx + 1])
                              ELSE an,
                              sensors, idx, k + 1)

FeedAnalyzerDistinct(an, sensors, idx) == FeedDistinctFrom(an, sensors, idx, 1)

FeedAnalyzer(an, sensors, idx) == FeedFrom(an, sensors, idx, 1)

\* computeRiskRecursive: result and the analyzer it leaves
computeRiskRecursive(an, sensors, idx) ==
    LET Result(an1, result) ==
            [score |-> result.score, method |-> "recursive",
             components |-> result.components, analyzer |-> an1]
    IN  The({Result(an1, computeRisk(an1)) : an1 \in {FeedAnalyzer(an, sensors, idx)}})

\* A slip: the blend scores its recursive part on a copy of the analyzer and
\* leaves the shared one as it was.
computeBlendedDetached(an, sensors, idx) ==
    LET Blend(weighted, recursive) ==
            LET blended == IF weighted.score = NaN THEN NaN
                           ELSE (BLEND_ALPHA * recursive.score
                                 + (SCALE - BLEND_ALPHA) * weighted.score) \div SCALE
            IN  [score |-> clamp01(blended), method |-> "blend",
                 components |-> [weighted |-> weighted.score,
                                 recursive |-> recursive.score,
                                 blended |-> blended],
                 analyzer |-> an]
    IN  The({Blend(weighted, recursive) :
                 weighted \in {computeCombinedScore(sensors, idx)},
                 recursive \in {computeRiskRecursive(an, sensors, idx)}})

\* computeBlendedScore: BLEND_ALPHA*recursive + (1-BLEND_ALPHA)*weighted
computeBlendedScore(an, sensors, idx) ==
    LET Blend(weighted, recursive) ==
            LET blended == IF weighted.score = NaN THEN NaN
                           ELSE (BLEND_ALPHA * recursive.score
                                 + (SCALE - BLEND_ALPHA) * weighted.score) \div SCALE
            IN  [score |-> clamp01(blended), method |-> "blend",
                 components |-> [weighted |-> weighted.score,
                                 recursive |-> recursive.score,
                                 blended |-> blended],
                 analyzer |-> recursive.analyzer]
    IN  The({Blend(weighted, recursive) :
                 weighted \in {computeCombinedScore(sensors, idx)},
                 recursive \in {computeRiskRecursive(an, sensors, idx)}})

---------------------------------------------------------------------------
(* WindowFeatureExtractor and ClusterClassifier (computeWindowFeatures,     *)
(* normalizeFeature, euclideanDistance, computeRiskClustering).  Features   *)
(* are in thousandths of their unit; RR intervals are carried in tenths of  *)
(* a millisecond.  An SDNN that is a positive double is never given as 0:   *)
(* 1 stands for any positive value below two thousandths.                   *)

WINDOW_SAMPLES == 30
MAX_DIST == 10

\* Math.sqrt of the fraction v.num / v.den, in thousandths
SqrtFrac(v) == RootMilli(v)

\* arr.slice(from, to) with 0-based from and exclusive to
Slice(arr, from, to) == SubSeq(arr, from + 1, Min2(to, Len(arr)))

Sum(s) == SumRange(s, 1, Len(s))
SumSq(s) == SumSqRange(s, 1, Len(s))

\* population variance of s as an exact fraction, about its first element
PopVar(s) ==
    LET n == Len(s)
        d == [i \in 1..n |-> s[i] - s[1]]
    IN  [num |-> n * SumSq(d) - Sum(d) * Sum(d), den |-> n * n]

\* A slip: every difference is taken from the first interval.
DiffsFromFirst(s) == [i \in 1..(Len(s) - 1) |-> s[i + 1] - s[1]]

\* the successive differences of s
Diffs(s) == [i \in 1..(Len(s) - 1) |-> s[i + 1] - s[i]]

\* A slip of the pNN50 test: the heart rates are compared, not the RR
\* intervals.
HrDiffOver50(a, b) == AbsI(b - a) > 50

\* |60000/a - 60000/b| > 50, decided exactly
RRDiffOver50(a, b) == 1200 * AbsI(b - a) > a * b

\* IEEE doubles, where the code's result depends on their rounding.  A
\* positive double is [m, e]: m its 53 significand bits, most significant
\* first, and the value is m * 2^e.  Natural numbers of any size are bit
\* sequences, most significant bit first.
MANTISSA_BITS == 53

RECURSIVE Bits(_)
Bits(n) == IF n = 0 THEN <<>> ELSE Append(Bits(n \div 2), n % 2)

Zeros(k) == [i \in 1..k |-> 0]

\* b without its leading zeros
StripZeros(b) ==
    IF \A i \in 1..Len(b) : b[i] = 0 THEN <<>>
    ELSE SubSeq(b, CHOOSE i \in 1..Len(b) : b[i] = 1 /\ \A j \in 1..(i - 1) : b[j] = 0,
                Len(b))

\* b + 1
IncBits(b) ==
    IF \A i \in 1..Len(b) : b[i] = 1 THEN <<1>> \o Zeros(Len(b))
    ELSE LET k == CHOOSE i \in 1..Len(b) : b[i] = 0 /\ \A j \in (i + 1)..Len(b) : b[j] = 1
         IN  SubSeq(b, 1, k - 1) \o <<1>> \o Zeros(Len(b) - k)

\* a + b for bit sequences of the same length, over the bits hi down to lo;
\* acc = [sum, carry] of the bits below.  The range is halved so that the
\* evaluation does not nest one level per bit.
RECURSIVE AddRange(_, _, _, _, _)
AddRange(a, b, lo, hi, acc) ==
    IF lo > hi THEN acc
    ELSE IF lo = hi
    THEN [sum   |-> <<(a[lo] + b[lo] + acc.carry) % 2>> \o acc.sum,
          carry |-> (a[lo] + b[lo] + acc.carry) \div 2]
    ELSE The({AddRange(a, b, lo, (lo + hi) \div 2, low) :
                  low \in {AddRange(a, b, (lo + hi) \div 2 + 1, hi, acc)}})

AddBits(a, b) ==
    LET n == Max2(Len(a), Len(b))
        Total(r) == StripZeros(<<r.carry>> \o r.sum)
    IN  The({Total(r) : r \in {AddRange(Zeros(n - Len(a)) \o a, Zeros(n - Len(b)) \o b,
                                       1, n, [sum |-> <<>>, carry |-> 0])}})

\* long division of the bit sequence b by the small number den, over the
\* bits lo to hi; acc = [q, rem] of the bits before
RECURSIVE LongDivRange(_, _, _, _, _)
LongDivRange(b, den, lo, hi, acc) ==
    IF lo > hi THEN acc
    ELSE IF lo = hi
    THEN [q   |-> Append(acc.q, (2 * acc.rem + b[lo]) \div den),
          rem |-> (2 * acc.rem + b[lo]) % den]
    ELSE The({LongDivRange(b, den, (lo + hi) \div 2 + 1, hi, left) :
                  left \in {LongDivRange(b, den, lo, (lo + hi) \div 2, acc)}})

LongDiv(b, den) ==
    LET Result(r) == [q |-> StripZeros(r.q), rem |-> r.rem]
    IN  The({Result(r) : r \in {LongDivRange(b, den, 1, Len(b), [q |-> <<>>, rem |-> 0])}})

\* round-to-nearest, ties-to-even, of the positive number b * 2^e (plus a
\* nonzero part below its last bit when sticky) to a double
RoundDouble(b, e, sticky) ==
    IF Len(b) <= MANTISSA_BITS
    THEN [m |-> b \o Zeros(MANTISSA_BITS - Len(b)), e |-> e - (MANTISSA_BITS - Len(b))]
    ELSE LET top  == SubSeq(b, 1, MANTISSA_BITS)
             rest == sticky \/ \E i \in (MANTISSA_BITS + 2)..Len(b) : b[i] = 1
             up   == b[MANTISSA_BITS + 1] = 1 /\ (rest \/ top[MANTISSA_BITS] = 1)
             m    == IF up THEN IncBits(top) ELSE top
         IN  [m |-> SubSeq(m, 1, MANTISSA_BITS),
              e |-> e + Len(b) - MANTISSA_BITS + (Len(m) - MANTISSA_BITS)]

\* a + b
DoubleAdd(a, b) ==
    LET e == Min2(a.e, b.e)
    IN  The({RoundDouble(sum, e, FALSE) :
                 sum \in {AddBits(a.m \o Zeros(a.e - e), b.m \o Zeros(b.e - e))}})

\* a / n for a small positive integer n
DoubleDivInt(a, n) ==
    The({RoundDouble(d.q, a.e - 8, d.rem # 0) : d \in {LongDiv(a.m \o Zeros(8), n)}})

\* num / den for small positive integers
DoubleQuotient(num, den) ==
    The({RoundDouble(d.q, -(2 * MANTISSA_BITS), d.rem # 0) :
             d \in {LongDiv(Bits(num) \o Zeros(2 * MANTISSA_BITS), den)}})

\* reduce((a, b) => a + b, 0) over n copies of x
RECURSIVE DoubleSumEqual(_, _)
DoubleSumEqual(x, n) ==
    IF n = 1 THEN x
    ELSE The({DoubleAdd(s, x) : s \in {DoubleSumEqual(x, n - 1)}})

\* rrMean of n RR intervals that all are 60000 / hr equals each of them.
\* When it does not, v - rrMean is a nonzero double for every interval and
\* so is the SDNN.
MeanOfEqualIsExact(hr, n) ==
    \A x \in {DoubleQuotient(60000, hr)} : DoubleDivInt(DoubleSumEqual(x, n), n) = x

\* computeWindowFeatures(sensors, idx): the 10-slot feature vector
computeWindowFeatures(sensors, idx) ==
    LET windowSize == Min2(WINDOW_SAMPLES, idx + 1)
        startIdx   == Max2(0, idx - windowSize + 1)
        hrWindow   == Slice(sensors.hrArr, startIdx, idx + 1)
        hrPos      == SelectSeq(hrWindow, LAMBDA v : v > 0)
        rr         == [i \in 1..Len(hrPos) |-> 600000 \div hrPos[i]]
        rrd        == Diffs(rr)
        hrOn       == Len(hrWindow) > 1
        rrOn       == hrOn /\ Len(rr) > 1
        hr_mean    == IF hrOn THEN (Sum(hrWindow) * SCALE) \div Len(hrWindow) ELSE 0
        hrv_sdnn   == IF ~rrOn THEN 0
                      ELSE IF \A i \in 1..Len(hrPos) : hrPos[i] = hrPos[1]
                      THEN (IF MeanOfEqualIsExact(hrPos[1], Len(hrPos)) THEN 0 ELSE 1)
                      ELSE Max2(1, SqrtFrac(PopVar(rr)) \div 10)
        hrv_rmssd  == IF rrOn
                      THEN SqrtFrac([num |-> SumSq(rrd), den |-> Len(rr) - 1]) \div 10
                      ELSE 0
        countDiff50 == Cardinality({i \in 1..(Len(hrPos) - 1) :
                                       RRDiffOver50(hrPos[i], hrPos[i + 1])})
        hrv_pnn50  == IF rrOn THEN (countDiff50 * 100 * SCALE) \div (Len(rr) - 1) ELSE 0
        magWindow  == Slice(sensors.magArr, startIdx, idx + 1)
        magOn      == Len(magWindow) > 0
        accel_mean == IF magOn THEN (Sum(magWindow) * SCALE) \div Len(magWindow) ELSE 0
        accel_std  == IF magOn THEN SqrtFrac(PopVar(magWindow)) ELSE 0
        active     == Cardinality({i \in 1..Len(magWindow) :
                                       magWindow[i] * SCALE > accel_mean + accel_std})
        accel_act  == IF magOn THEN (active * SCALE) \div Len(magWindow) ELSE 0
        tempWindow == Slice(sensors.tempArr, startIdx, idx + 1)
        n          == Len(tempWindow)
        tempOn     == n > 0
        temp_mean  == IF tempOn THEN (Sum(tempWindow) * SCALE) \div n ELSE 0
        temp_std   == IF tempOn THEN SqrtFrac(PopVar(tempWindow)) ELSE 0
        sumX       == (n * (n - 1)) \div 2
        sumX2      == ((n - 1) * n * (2 * n - 1)) \div 6
        sumY       == Sum(tempWindow)
        sumXY      == Sum([i \in 1..n |-> (i - 1) * tempWindow[i]])
        slopeNum   == n * sumXY - sumX * sumY
        slopeDen   == n * sumX2 - sumX * sumX
        slopeAbs   == IF n > 1
                      THEN MulDiv(AbsI(slopeNum), 300 * SCALE, slopeDen * windowSize)
                      ELSE 0
        temp_slope == IF slopeNum < 0 THEN -slopeAbs ELSE slopeAbs
    IN  <<hr_mean, hrv_sdnn, hrv_rmssd, hrv_pnn50, accel_mean, accel_std,
          accel_act, temp_mean, temp_std, temp_slope>>

\* normalizeFeature(feature, metadata): (v - mean[i]) / scale[i]
normalizeFeature(feature, model) ==
    IF Len(model.scaler_mean) = 0 \/ Len(model.scaler_scale) = 0 THEN feature
    ELSE [i \in 1..Len(feature) |->
            LET d == feature[i] - model.scaler_mean[i]
                q == MulDiv(AbsI(d), SCALE, model.scaler_scale[i])
            IN  IF d < 0 THEN -q ELSE q]

\* A slip: the sum of the absolute differences instead of the root of the
\* sum of their squares.
manhattanDistance(v1, v2) ==
    LET m == Min2(Len(v1), Len(v2))
    IN  Sum([i \in 1..m |-> AbsI(v1[i] - v2[i])])

\* euclideanDistance(v1, v2)
euclideanDistance(v1, v2) ==
    LET m == Min2(Len(v1), Len(v2))
    IN  ISqrt(Sum([i \in 1..m |-> (v1[i] - v2[i]) * (v1[i] - v2[i])]))

\* the nearest-centroid loop: the first centroid at the strictly least distance
RECURSIVE nearestFrom(_, _, _, _)
nearestFrom(normalized, centroids, k, best) ==
    IF k > Len(centroids) THEN best
    ELSE LET dist == euclideanDistance(normalized, centroids[k].centroid)
         IN  nearestFrom(normalized, centroids, k + 1,
                         IF dist < best.minDistance
                         THEN [minDistance |-> dist,
                               nearestClusterId |-> centroids[k].cluster_id,
                               nearestRisk |-> centroids[k].risk_level]
                         ELSE best)

\* computeRiskClustering(sensors, idx)
computeRiskClustering(model, sensors, idx) ==
    IF ~model.loaded
    THEN [score |-> 500, method |-> "clustering",
          components |-> [cluster_distance |-> 500]]
    ELSE LET windowFeatures == computeWindowFeatures(sensors, idx)
             normalized == normalizeFeature(windowFeatures, model)
             Result(near, confidence) ==
                 [score |-> clamp01((near.nearestRisk * confidence
                                     + 500 * (SCALE - confidence)) \div SCALE),
                  method |-> "clustering",
                  components |-> [nearest_cluster |-> near.nearestClusterId,
                                  cluster_risk |-> near.nearestRisk,
                                  distance_to_cluster |->
                                      IF near.minDistance = Infinity THEN Infinity
                                      ELSE (near.minDistance + 5) \div 10,
                                  confidence |-> confidence]]
             Confidence(near) ==
                 IF near.minDistance = Infinity THEN 0
                 ELSE Max2(0, SCALE - near.minDistance \div MAX_DIST)
         IN  The({Result(near, Confidence(near)) :
                      near \in {nearestFrom(normalized, model.centroids, 1,
                                            [minDistance |-> Infinity,
                                             nearestClusterId |-> 0,
                                             nearestRisk |-> 500])}})

\* computeRiskScore(sensors, idx): dispatch on SCORING_MODE; any other mode
\* value falls back to the weighted method.  The result carries the analyzer
\* the call leaves behind.
computeRiskScore(mode, an, model, sensors, idx) ==
    IF mode = "recursive" THEN computeRiskRecursive(an, sensors, idx)
    ELSE IF mode = "blend" THEN computeBlendedScore(an, sensors, idx)
    ELSE IF mode = "clustering"
         THEN computeRiskClustering(model, sensors, idx) @@ [analyzer |-> an]
    ELSE computeCombinedScore(sensors, idx) @@ [analyzer |-> an]

riskFromScore(score) ==
    IF score # NaN /\ score >= 600 THEN "high"
    ELSE IF score # NaN /\ score >= 300 THEN "moderate"
    ELSE "low"

---------------------------------------------------------------------------
(* TimeSeriesAssembler (flattenPacketDocs, sortDocsByDetectedTimestamp)     *)

MS_PER_DAY == 86400000

\* new Date(ms).toISOString(): the calendar day and the time of day to the
\* millisecond (the day is kept as a day number instead of year-month-day)
toISOString(ms) ==
    [day |-> ms \div MS_PER_DAY,
     hh  |-> (ms % MS_PER_DAY) \div 3600000,
     mm  |-> (ms % 3600000) \div 60000,
     ss  |-> (ms % 60000) \div 1000,
     sss |-> ms % 1000]

\* new Date(iso).getTime(), as ui.js reads a timestamp back
DateParse(iso) ==
    iso.day * MS_PER_DAY + iso.hh * 3600000 + iso.mm * 60000 + iso.ss * 1000 + iso.sss

\* the sensors argument flattenPacketDocs passes: sensors.x || []
\* the sensors argument when the document has no channel (sensors.hr || [])
NoChannels == [hrArr |-> <<>>, spo2Arr |-> <<>>, magArr |-> <<>>, tempArr |-> <<>>]

SensorArgs(sensors) ==
    [hrArr |-> sensors.hr.v, spo2Arr |-> sensors.spo2.v,
     magArr |-> sensors.mag.v, tempArr |-> sensors.temp.v]

\* L: the largest length among the channels, 0 when there is none
SampleCount(sensors) ==
    Max2(Max2(Len(sensors.hr.v), Len(sensors.spo2.v)),
         Max2(Len(sensors.temp.v), Len(sensors.mag.v)))

\* A slip of the timestamp formula: the index inside the packet is not
\* reversed, so the newest sample gets the oldest time.
samplesFromEndForward(docsCount, dIdx, L, i) == (docsCount - 1 - dIdx) * L + i

\* samplesFromEnd = (docsCount - 1 - dIdx) * L + (L - 1 - i)
samplesFromEnd(docsCount, dIdx, L, i) == (docsCount - 1 - dIdx) * L + (L - 1 - i)

\* one iteration of the inner loop: score sample i of document dIdx and push
\* its point.  acc = [an, out]; each point carries, besides the timestamp,
\* score and risk the code stores, the document and sample index it came
\* from and the scoring result (d, i, method, components).
ScoreOne(ctx, i, acc) ==
    LET ms == ctx.now - samplesFromEnd(ctx.docsCount, ctx.dIdx, ctx.L, i)
                          * INTRA_PACKET_INTERVAL_MS
        Push(r) ==
            [an  |-> r.analyzer,
             out |-> Append(acc.out,
                            [timestamp |-> toISOString(ms), score |-> r.score,
                             risk |-> riskFromScore(r.score),
                             d |-> ctx.dIdx, i |-> i, method |-> r.method,
                             components |-> r.components])]
    IN  The({Push(r) : r \in {computeRiskScore(ctx.mode, acc.an, ctx.model,
                                                 ctx.sensors, i)}})

\* the inner loop for i in lo..hi, in order.  The range is halved, and the
\* first half is computed before the second half starts, so that the
\* evaluation does not nest one level per sample.
RECURSIVE ScoreRange(_, _, _, _)
ScoreRange(ctx, lo, hi, acc) ==
    IF lo > hi THEN acc
    ELSE IF lo = hi THEN ScoreOne(ctx, lo, acc)
    ELSE LET mid == (lo + hi) \div 2
         IN  The({ScoreRange(ctx, mid + 1, hi, left) :
                      left \in {ScoreRange(ctx, lo, mid, acc)}})

\* the outer loop from document dIdx (0-based) on
RECURSIVE FlattenFrom(_, _, _, _, _, _)
FlattenFrom(docs, mode, model, t, dIdx, acc) ==
    IF dIdx >= Len(docs) THEN acc
    ELSE LET Samples(sensors, L) ==
                 IF L = 0 THEN FlattenFrom(docs, mode, model, t, dIdx + 1, acc)
                 ELSE The({FlattenFrom(docs, mode, model, t, dIdx + 1, done) :
                           done \in {ScoreRange([mode |-> mode, model |-> model,
                                                 sensors |-> SensorArgs(sensors),
                                                 now |-> t, docsCount |-> Len(docs),
                                                 dIdx |-> dIdx, L |-> L],
                                                0, L - 1, acc)}})
         IN  The({Samples(sensors, SampleCount(sensors)) :
                      sensors \in {extractSensorArrays(docs[dIdx + 1].data)}})

\* A slip of the truncation: the first MAX_POINTS points are kept.
sliceFirst(s, k) == SubSeq(s, 1, Min2(Len(s), k))

\* series.slice(-k): the last k elements
sliceLast(s, k) == SubSeq(s, Max2(1, Len(s) - k + 1), Len(s))

\* flattenPacketDocs(packetDocs) under the current mode, analyzer and model,
\* with t the value Date.now() returns: [an, all, series], where all is the
\* series before truncation.
flattenPacketDocs(docs, mode, an, model, t) ==
    LET Result(r) ==
            [an |-> r.an, all |-> r.out, series |-> sliceLast(r.out, MAX_POINTS)]
    IN  The({Result(r) :
                 r \in {FlattenFrom(docs, mode, model, t, 0, [an |-> an, out |-> <<>>])}})

\* tryGetTimestampMsFromDoc(doc): the first of ts, timestamp, time, createdAt,
\* created_at that holds a number; -1 stands for null
TS_CANDIDATES == <<"ts", "timestamp", "time", "createdAt", "created_at">>
NoTs == -1

RECURSIVE tsFrom(_, _)
tsFrom(data, k) ==
    IF k > Len(TS_CANDIDATES) THEN NoTs
    ELSE IF TS_CANDIDATES[k] \in DOMAIN data /\ data[TS_CANDIDATES[k]].kind = "number"
         THEN data[TS_CANDIDATES[k]].v[1]
         ELSE tsFrom(data, k + 1)

\* A slip: the search stops at the first candidate that is a key, whether
\* or not its value is a usable timestamp.
tryGetTimestampFirstKey(doc) ==
    IF \A k \in 1..Len(TS_CANDIDATES) : TS_CANDIDATES[k] \notin DOMAIN doc.data THEN NoTs
    ELSE LET first == TS_CANDIDATES[CHOOSE k \in 1..Len(TS_CANDIDATES) :
                                       /\ TS_CANDIDATES[k] \in DOMAIN doc.data
                                       /\ \A j \in 1..(k - 1) :
                                             TS_CANDIDATES[j] \notin DOMAIN doc.data]
         IN  IF doc.data[first].kind = "number" THEN doc.data[first].v[1] ELSE NoTs

tryGetTimestampMsFromDoc(doc) == tsFrom(doc.data, 1)

\* a.ts || 0
TsOrZero(doc) == Max2(0, tryGetTimestampMsFromDoc(doc))

\* Array.prototype.sort with (a.ts || 0) - (b.ts || 0): a stable sort
RECURSIVE InsertByTs(_, _)
InsertByTs(sorted, doc) ==
    IF sorted = <<>> THEN <<doc>>
    ELSE IF TsOrZero(sorted[Len(sorted)]) <= TsOrZero(doc) THEN Append(sorted, doc)
    ELSE Append(InsertByTs(SubSeq(sorted, 1, Len(sorted) - 1), doc), sorted[Len(sorted)])

RECURSIVE SortByTs(_, _)
SortByTs(docs, k) ==
    IF k = 0 THEN <<>> ELSE InsertByTs(SortByTs(docs, k - 1), docs[k])

sortDocsByDetectedTimestamp(docs) ==
    IF \A k \in 1..Len(docs) : tryGetTimestampMsFromDoc(docs[k]) = NoTs THEN docs
    ELSE SortByTs(docs, Len(docs))

---------------------------------------------------------------------------
(* State after module load                                                 *)

NoSub == 0
NoCall == [fn |-> "none"]
Modes == {"weighted", "recursive", "blend", "clustering"}
NoModel == [loaded |-> FALSE, centroids |-> <<>>, scaler_mean |-> <<>>, scaler_scale |-> <<>>]
EmptyHist == [n \in SensorNames |-> <<>>]

\* A slip of the default: the module starts in the strategy computeRiskScore
\* falls back to.
InitAppWeighted ==
    /\ SCORING_MODE = "weighted"
    /\ clusterModel = NoModel
    /\ loadPending = TRUE
    /\ unsubscribe = 1
    /\ live = {1}
    /\ uiReady = FALSE
    /\ connected = "unset"
    /\ series = <<>>
    /\ scored = <<>>
    /\ batch = <<>>
    /\ now = 0
    /\ hist = EmptyHist
    /\ lastOp = "load"
    /\ arg = NoCall
    /\ ret = <<>>
    /\ queue = <<>>

\* Everything but the analyzer: SCORING_MODE = 'blend', no model, the first
\* subscription started by the top-level startSensorStream() call.
InitApp ==
    /\ SCORING_MODE = "blend"
    /\ clusterModel = NoModel
    /\ loadPending = TRUE
    /\ unsubscribe = 1
    /\ live = {1}
    /\ uiReady = FALSE
    /\ connected = "unset"
    /\ series = <<>>
    /\ scored = <<>>
    /\ batch = <<>>
    /\ now = 0
    /\ hist = EmptyHist
    /\ lastOp = "load"
    /\ arg = NoCall
    /\ ret = <<>>
    /\ queue = <<>>

AppUnchanged ==
    UNCHANGED <<SCORING_MODE, clusterModel, loadPending, unsubscribe, live,
                uiReady, connected, series, scored, batch, now, arg, ret,
                queue>>

---------------------------------------------------------------------------
(* SpecAnalyzer: the analyzer alone under arbitrary addSample/reset calls  *)

MaxFeed == 7
SampleVals == {60, 180}
TotalFed == Len(hist["hr"]) + Len(hist["spo2"]) + Len(hist["temp"]) + Len(hist["accel"])

InitAnalyzer ==
    /\ analyzer = RecursiveAnalyzer([longWindow |-> LongWindow,
                                     shortWindow |-> ShortWindow,
                                     minSamples |-> MinSamples])
    /\ InitApp

AnAddSample(name, v) ==
    /\ TotalFed < MaxFeed
    /\ analyzer' = addSample(analyzer, name, v)
    /\ hist' = IF name \in SensorNames
               THEN [hist EXCEPT ![name] = Append(@, v)] ELSE hist
    /\ lastOp' = "addSample"
    /\ AppUnchanged

AnReset ==
    /\ analyzer' = reset(analyzer)
    /\ hist' = EmptyHist
    /\ lastOp' = "reset"
    /\ AppUnchanged

NextAnalyzer ==
    \/ \E name \in SensorNames \cup {"gyro"}, v \in SampleVals : AnAddSample(name, v)
    \/ AnReset

SpecAnalyzer == InitAnalyzer /\ [][NextAnalyzer]_vars

\* C2: a channel whose buffer holds fewer than MIN_SAMPLES values has
\* anomalyScore = 0, in every state reachable by addSample and reset calls
\* (in particular for the first MIN_SAMPLES-1 samples after a reset).
C2_ShortHistoryScoresZero ==
    \A n \in SensorNames :
        Len(analyzer.sensors[n].buffer) < analyzer.MIN_SAMPLES
            => analyzer.sensors[n].anomalyScore = 0

\* C2 witness: after a reset of a channel that had a nonzero anomaly score
\* elsewhere in the run, a channel has been fed again and still holds fewer
\* than MIN_SAMPLES values.
C2_Witness ==
    /\ lastOp = "addSample"
    /\ \E n \in SensorNames :
          /\ Len(analyzer.sensors[n].buffer) = analyzer.MIN_SAMPLES - 1
          /\ Len(analyzer.sensors[n].buffer) >= 1
          /\ analyzer.sensors[n].anomalyScore = 0
    /\ \E m \in SensorNames : analyzer.sensors[m].anomalyScore > 0

\* The last k entries of a sequence are all equal
ConstantTail(h, k) ==
    /\ Len(h) >= k
    /\ \A i \in (Len(h) - k + 1)..Len(h) : h[i] = h[Len(h)]

\* C5: a channel fed the same value for at least LONG_WINDOW consecutive
\* samples has longVar = 0, shortVar = 0, trend = 0 and anomalyScore = 0.
C5_ConstantFeedIsQuiet ==
    \A n \in SensorNames :
        ConstantTail(hist[n], analyzer.LONG_WINDOW)
            => /\ analyzer.sensors[n].longVar.num = 0
               /\ analyzer.sensors[n].shortVar.num = 0
               /\ analyzer.sensors[n].trend = 0
               /\ analyzer.sensors[n].anomalyScore = 0

\* C5 witness: a constant run of LONG_WINDOW samples that follows a
\* different, older value (which the run has pushed out of the buffer).
C5_Witness ==
    \E n \in SensorNames :
        /\ ConstantTail(hist[n], analyzer.LONG_WINDOW)
        /\ Len(hist[n]) > analyzer.LONG_WINDOW
        /\ hist[n][1] # hist[n][Len(hist[n])]

\* the last k entries of h
LastOf(h, k) == SubSeq(h, Len(h) - k + 1, Len(h))

\* C24: every channel's buffer has length at most LONG_WINDOW and holds
\* exactly the most recent min(n, LONG_WINDOW) values fed to that channel
\* since the last reset, in arrival order; an addSample call leaves the
\* state of every channel it does not feed unchanged (every channel, when
\* the sensor name is unknown).
C24_BufferIsRecentWindow ==
    /\ [](\A n \in SensorNames :
            /\ Len(analyzer.sensors[n].buffer) <= analyzer.LONG_WINDOW
            /\ analyzer.sensors[n].buffer
                  = LastOf(hist[n], Min2(Len(hist[n]), analyzer.LONG_WINDOW)))
    /\ [][lastOp' = "addSample"
            => \A m \in SensorNames :
                  hist'[m] = hist[m] => analyzer'.sensors[m] = analyzer.sensors[m]]_vars

\* C24 witness: a channel has been fed LONG_WINDOW + 1 values, the first of
\* which differs from the second and is no longer in the buffer
C24_Witness ==
    \E n \in SensorNames :
        /\ Len(hist[n]) = analyzer.LONG_WINDOW + 1
        /\ Len(analyzer.sensors[n].buffer) = analyzer.LONG_WINDOW
        /\ hist[n][1] # hist[n][2]
        /\ analyzer.sensors[n].buffer[1] = hist[n][2]

---------------------------------------------------------------------------
(* SpecExtreme: the analyzer under addSample and reset calls whose values   *)
(* are finite but may be extreme                                            *)

ExtremeVals == {70, HUGE}

NextExtreme ==
    \/ \E name \in {"hr", "temp"}, v \in ExtremeVals : AnAddSample(name, v)
    \/ AnReset

SpecExtreme == InitAnalyzer /\ [][NextExtreme]_vars

\* 0.35*hr + 0.30*spo2 + 0.20*accel + 0.15*temp of the channels' anomaly
\* scores, clamped to [0,1]
WeightedAnomaly(an) ==
    Max2(0, Min2(SCALE, (350 * an.sensors["hr"].anomalyScore
                         + 300 * an.sensors["spo2"].anomalyScore
                         + 200 * an.sensors["accel"].anomalyScore
                         + 150 * an.sensors["temp"].anomalyScore) \div SCALE))

\* C23: after any sequence of addSample and reset calls with finite values,
\* every channel's anomalyScore lies in [0,1] and computeRisk().score is the
\* clamped fixed-weight sum of the four anomaly scores; on a fresh or reset
\* analyzer computeRisk() returns score 0 with all components 0.
C23_RiskIsClampedWeightedSum ==
    /\ \A n \in SensorNames :
          /\ analyzer.sensors[n].anomalyScore # NaN
          /\ 0 <= analyzer.sensors[n].anomalyScore
          /\ analyzer.sensors[n].anomalyScore <= SCALE
    /\ computeRisk(analyzer).score = WeightedAnomaly(analyzer)
    /\ (\A n \in SensorNames : analyzer.sensors[n] = initSensor)
          => /\ computeRisk(analyzer).score = 0
             /\ \A n \in SensorNames : computeRisk(analyzer).components[n] = 0

---------------------------------------------------------------------------
(* SpecDefaults: the analyzer with its default windows (1500/150/100), one  *)
(* channel fed 100 samples of 60 and then 150 samples of 180                *)

InitDefaults ==
    /\ analyzer = RecursiveAnalyzer([longWindow |-> 0, shortWindow |-> 0, minSamples |-> 0])
    /\ InitApp

FeedStep(name) ==
    /\ \A m \in SensorNames \ {name} : hist[m] = <<>>
    /\ Len(hist[name]) < 250
    /\ LET v == IF Len(hist[name]) < 100 THEN 60 ELSE 180
       IN  /\ analyzer' = addSample(analyzer, name, v)
           /\ hist' = [hist EXCEPT ![name] = Append(@, v)]
    /\ lastOp' = "addSample"
    /\ AppUnchanged

NextDefaults == \E name \in SensorNames : FeedStep(name)

SpecDefaults == InitDefaults /\ [][NextDefaults]_vars

StepFed(h) ==
    /\ Len(h) = 250
    /\ \A i \in 1..250 : h[i] = IF i <= 100 THEN 60 ELSE 180

\* C4: from a reset analyzer, 100 samples of 60 followed by 150 samples of
\* 180 on one channel leave that channel with trend > 0 and
\* anomalyScore > 0.5.
C4_StepRaisesAnomaly ==
    \A n \in SensorNames :
        StepFed(hist[n])
            => /\ analyzer.sensors[n].trend > 0
               /\ analyzer.sensors[n].anomalyScore > 500

---------------------------------------------------------------------------
(* SpecNorm: toNumArr called directly on strings and arrays built from the *)
(* same elements                                                           *)

MaxToks == 3

\* An element as text, the number that prints as that text (if there is
\* one), and the finite number the element stands for (0 when it stands
\* for none).
TokenPool ==
    <<[text |-> <<"1">>, hasNum |-> TRUE, num |-> 1, val |-> 1],
      [text |-> <<"2">>, hasNum |-> TRUE, num |-> 2, val |-> 2],
      [text |-> <<"3">>, hasNum |-> TRUE, num |-> 3, val |-> 3],
      [text |-> <<" ", "1", "2", " ">>, hasNum |-> FALSE, num |-> 0, val |-> 12],
      [text |-> <<"-", "4">>, hasNum |-> TRUE, num |-> -4, val |-> -4],
      [text |-> <<"a", "b", "c">>, hasNum |-> FALSE, num |-> 0, val |-> 0],
      [text |-> <<"N", "a", "N">>, hasNum |-> TRUE, num |-> NaN, val |-> 0],
      [text |-> <<"I", "n", "f", "i", "n", "i", "t", "y">>, hasNum |-> TRUE,
       num |-> Infinity, val |-> 0],
      [text |-> <<>>, hasNum |-> FALSE, num |-> 0, val |-> 0],
      [text |-> <<" ">>, hasNum |-> FALSE, num |-> 0, val |-> 0]>>

TokSeqs == UNION {[1..n -> 1..Len(TokenPool)] : n \in 0..MaxToks}

\* the texts of toks joined by commas
RECURSIVE Join(_, _)
Join(toks, k) ==
    IF k > Len(toks) THEN <<>>
    ELSE (IF k > 1 THEN <<",">> ELSE <<>>) \o TokenPool[toks[k]].text \o Join(toks, k + 1)

IsBlank(tok) == \A i \in 1..Len(TokenPool[tok].text) : TokenPool[tok].text[i] = " "

PureUnchanged ==
    UNCHANGED <<analyzer, SCORING_MODE, clusterModel, loadPending, unsubscribe, live,
                uiReady, connected, series, scored, batch, now, hist, queue>>

CallToNumArr(form, toks, value) ==
    /\ arg' = [fn |-> "toNumArr", form |-> form, toks |-> toks, value |-> value]
    /\ ret' = toNumArr(value)
    /\ lastOp' = "toNumArr"
    /\ PureUnchanged

\* toNumArr("t1,t2,...")
NormalizeString(toks) ==
    /\ toks # <<>>
    /\ CallToNumArr("string", toks, Str(Join(toks, 1)))

\* toNumArr([n1, n2, ...]) with every element a number
NormalizeNumbers(toks) ==
    /\ \A i \in 1..Len(toks) : TokenPool[toks[i]].hasNum
    /\ CallToNumArr("numbers", toks,
                    ArrOf([i \in 1..Len(toks) |-> Num(TokenPool[toks[i]].num)]))

\* toNumArr([n1, "t2", n3, ...]): numbers at the odd places where the
\* element has one, strings elsewhere
NormalizeMixed(toks) ==
    CallToNumArr("mixed", toks,
                 ArrOf([i \in 1..Len(toks) |->
                          IF i % 2 = 1 /\ TokenPool[toks[i]].hasNum
                          THEN Num(TokenPool[toks[i]].num)
                          ELSE Str(TokenPool[toks[i]].text)]))

\* toNumArr(null) and toNumArr(7)
NormalizeOther(value) == CallToNumArr("other", <<>>, value)

\* one direct call per behaviour
NextNorm ==
    /\ arg = NoCall
    /\ \/ \E toks \in TokSeqs : NormalizeString(toks)
       \/ \E toks \in TokSeqs : NormalizeNumbers(toks)
       \/ \E toks \in TokSeqs : NormalizeMixed(toks)
       \/ \E value \in {Null, Num(7)} : NormalizeOther(value)

SpecNorm == InitAnalyzer /\ [][NextNorm]_vars

ValuesOf(toks) == [i \in 1..Len(toks) |-> TokenPool[toks[i]].val]

\* the elements toNumArr keeps: all of an array, the non-blank segments of
\* a string
KeptOf(call) ==
    IF call.form = "string" THEN SelectSeq(call.toks, LAMBDA tok : ~IsBlank(tok))
    ELSE call.toks

\* C11 as stated: a string, an array of numbers and a mixed array with the
\* same elements give the same numeric sequence, one number per element in
\* the same order, with 0 for an unparseable or non-finite element.  (A
\* string that is wholly blank is left aside: it can be read as having no
\* element.)
C11_SameElementsSameNumbers ==
    (arg.fn = "toNumArr" /\ arg.form # "other"
        /\ ~(arg.form = "string" /\ trim(arg.value.v) = <<>>))
    => ret = ValuesOf(arg.toks)

\* C11 amended: as above, except that the segments of a string that are
\* empty or blank are dropped instead of giving 0
C11_BlankSegmentsDropped ==
    (arg.fn = "toNumArr" /\ arg.form # "other") => ret = ValuesOf(KeptOf(arg))

\* a string with a blank segment, an unparseable one and a number has been
\* normalized, and the blank segment is gone
C11_Witness ==
    /\ arg.fn = "toNumArr"
    /\ arg.form = "string"
    /\ \E i \in 1..Len(arg.toks) : IsBlank(arg.toks[i])
    /\ \E i \in 1..Len(arg.toks) : TokenPool[arg.toks[i]].text = <<"a", "b", "c">>
    /\ \E i \in 1..Len(arg.toks) : TokenPool[arg.toks[i]].val = 12
    /\ Len(ret) = 2
    /\ ret = ValuesOf(KeptOf(arg))

---------------------------------------------------------------------------
(* SpecFeat: computeWindowFeatures called directly on heart-rate arrays    *)

MaxArr == 3
HrVals == {0, 60, 66, 120}
EqualVals == {60, 70, 75}

\* arrays of one repeated value, up to past the window size, and all short
\* arrays over HrVals
HrArrays ==
    {[i \in 1..n |-> c] : c \in EqualVals, n \in 1..(WINDOW_SAMPLES + 2)}
        \cup UNION {[1..n -> HrVals] : n \in 0..MaxArr}

\* computeWindowFeatures({hrArr, [], [], []}, idx)
ExtractFeatures(hrArr, idx) ==
    /\ arg' = [fn |-> "computeWindowFeatures", hrArr |-> hrArr, idx |-> idx]
    /\ ret' = computeWindowFeatures([NoChannels EXCEPT !.hrArr = hrArr], idx)
    /\ lastOp' = "computeWindowFeatures"
    /\ PureUnchanged

\* one direct call per behaviour; idx is an index of the longest channel,
\* which may be longer than hrArr by one
NextFeat ==
    /\ arg = NoCall
    /\ \E hrArr \in HrArrays : \E idx \in 0..Len(hrArr) : ExtractFeatures(hrArr, idx)

SpecFeat == InitAnalyzer /\ [][NextFeat]_vars

\* the heart-rate samples inside the trailing window of the call, and the
\* valid (positive) ones among them
HrWindowOf(call) ==
    SubSeq(call.hrArr, Max2(1, call.idx + 2 - WINDOW_SAMPLES), Min2(call.idx + 1, Len(call.hrArr)))
ValidHrOf(call) == SelectSeq(HrWindowOf(call), LAMBDA v : v > 0)

Called == arg.fn = "computeWindowFeatures"

\* C13: over a window in which every heart-rate sample has the same
\* positive value, SDNN = 0, RMSSD = 0 and pNN50 = 0, for every window
\* length from 1 to 30.
C13_EqualSamplesNoVariability ==
    (/\ Called
     /\ HrWindowOf(arg) # <<>>
     /\ \A i \in 1..Len(HrWindowOf(arg)) :
           HrWindowOf(arg)[i] > 0 /\ HrWindowOf(arg)[i] = HrWindowOf(arg)[1])
    => ret[2] = 0 /\ ret[3] = 0 /\ ret[4] = 0

\* the number of consecutive pairs of RR intervals 60000/hr that differ by
\* more than 50 ms
PairsOver50(hr) ==
    Cardinality({i \in 1..(Len(hr) - 1) :
                    60000 * AbsI(hr[i + 1] - hr[i]) > 50 * hr[i] * hr[i + 1]})

\* C14: pNN50 is 100 times the fraction of consecutive in-window RR pairs
\* whose absolute difference exceeds 50 ms (in thousandths, rounded down);
\* the window [60, 120] gives 100.
C14_Pnn50IsPercentOfPairs ==
    /\ (Called /\ Len(ValidHrOf(arg)) >= 2)
       => ret[4] = (PairsOver50(ValidHrOf(arg)) * 100 * SCALE) \div (Len(ValidHrOf(arg)) - 1)
    /\ (Called /\ HrWindowOf(arg) = <<60, 120>>) => ret[4] = 100 * SCALE

\* the window [60, 120, 120]: two pairs, one of them more than 50 ms apart
\* (1000 to 500 ms), pNN50 = 50
C14_Witness ==
    /\ Called
    /\ arg.hrArr = <<60, 120, 120>>
    /\ arg.idx = 2
    /\ ret[4] = 50 * SCALE

\* C19: hrMean is the arithmetic mean of the heart-rate samples in the
\* window whenever there is at least one, a window of exactly one sample
\* included, and 0 only when there is none.
C19_HrMeanOfWindow ==
    Called =>
        ret[1] = IF HrWindowOf(arg) = <<>> THEN 0
                 ELSE (Sum(HrWindowOf(arg)) * SCALE) \div Len(HrWindowOf(arg))

\* the sample variance (divisor n - 1) of s as an exact fraction
SampleVar(s) == [num |-> PopVar(s).num, den |-> Len(s) * (Len(s) - 1)]

\* C20: SDNN is the sample standard deviation of the in-window RR
\* intervals (divisor n - 1), to within one thousandth of a millisecond,
\* and 0 when fewer than 2 RR intervals are valid.
C20_SdnnIsSampleStdDev ==
    Called =>
        IF Len(ValidHrOf(arg)) < 2 THEN ret[2] = 0
        ELSE AbsI(ret[2] - SqrtFrac(SampleVar([i \in 1..Len(ValidHrOf(arg)) |->
                                        600000 \div ValidHrOf(arg)[i]])) \div 10) <= 1

\* the RR intervals (tenths of a millisecond) of the valid samples of the
\* window, and the root mean square of their consecutive differences
RROf(call) == [i \in 1..Len(ValidHrOf(call)) |-> 600000 \div ValidHrOf(call)[i]]
RmsOfDiffs(rr) ==
    SqrtFrac([num |-> SumSq([i \in 1..(Len(rr) - 1) |-> rr[i + 1] - rr[i]]),
              den |-> Len(rr) - 1]) \div 10

\* C21 as stated: with fewer than 3 valid RR intervals (fewer than 2
\* consecutive differences) RMSSD and pNN50 are 0; otherwise RMSSD is the
\* root mean square of the consecutive RR differences.
C21_ZeroBelowTwoDiffs ==
    Called =>
        IF Len(ValidHrOf(arg)) < 3 THEN ret[3] = 0 /\ ret[4] = 0
        ELSE ret[3] = RmsOfDiffs(RROf(arg))

\* C21: with fewer than 2 valid RR intervals (no consecutive difference)
\* RMSSD and pNN50 are 0; otherwise, a single difference included, RMSSD is
\* the root mean square of the consecutive RR differences.
C21_RmssdOfDiffs ==
    Called =>
        IF Len(ValidHrOf(arg)) < 2 THEN ret[3] = 0 /\ ret[4] = 0
        ELSE ret[3] = RmsOfDiffs(RROf(arg))

\* C21 witness: two valid RR intervals, one difference (1000 to 909 ms),
\* with a nonzero RMSSD and pNN50
C21_Witness ==
    /\ Called
    /\ ValidHrOf(arg) = <<60, 66>>
    /\ ret[3] > 0
    /\ ret[4] = 100 * SCALE

---------------------------------------------------------------------------
(* SpecUi: ui.js alone, under setHistory calls before and after initUI.    *)
(* Here ret is what the ui module holds after the call: pendingHistory,    *)
(* the rows of the events table from top to bottom, and the score shown.   *)

TABLE_ROWS == 10
MaxStart == 8

Reverse(s) == [i \in 1..Len(s) |-> s[Len(s) + 1 - i]]

\* forEach(r => tableBody.prepend(tr)) over s, onto the rows already there
RECURSIVE PrependAll(_, _)
PrependAll(rows, s) ==
    IF s = <<>> THEN rows ELSE PrependAll(<<Head(s)>> \o rows, Tail(s))

NoPage == [pendingHistory |-> Null, tableBody |-> <<>>, score |-> NoTs]

\* setHistory(readings), with ready telling whether initUI has set the
\* elements: nothing for an empty or non-array argument; the score of the
\* last reading through setScore, which returns before initUI; then the
\* last ten readings into the emptied table, unless there is no table yet.
setHistory(ui, ready, readings) ==
    IF readings.kind # "array" \/ readings.v = <<>> THEN ui
    ELSE IF ~ready THEN ui
    ELSE [ui EXCEPT !.score = readings.v[Len(readings.v)].score,
                    !.tableBody = PrependAll(<<>>, Reverse(sliceLast(readings.v, TABLE_ROWS)))]

\* the tail of initUI, once the elements are set
initUI(ui) ==
    IF ui.pendingHistory # Null
    THEN [setHistory(ui, TRUE, ui.pendingHistory) EXCEPT !.pendingHistory = Null]
    ELSE ui

Reading(t) == [timestamp |-> t, score |-> (t * 70) % SCALE]

\* the arguments: null, an empty array, and histories of 1, 2, 3 and 11
\* readings starting at different times
HistoryPool ==
    {Null} \cup {ArrOf([i \in 1..n |-> Reading(a + i)]) :
                     a \in 1..MaxStart, n \in {0, 1, 2, 3, TABLE_ROWS + 1}}

InitPage ==
    /\ analyzer = RecursiveAnalyzer([longWindow |-> LongWindow,
                                     shortWindow |-> ShortWindow,
                                     minSamples |-> MinSamples])
    /\ SCORING_MODE = "blend"
    /\ clusterModel = NoModel
    /\ loadPending = TRUE
    /\ unsubscribe = 1
    /\ live = {1}
    /\ uiReady = FALSE
    /\ connected = "unset"
    /\ series = <<>>
    /\ scored = <<>>
    /\ batch = <<>>
    /\ now = 0
    /\ hist = EmptyHist
    /\ lastOp = "load"
    /\ arg = NoCall
    /\ ret = NoPage
    /\ queue = <<>>

CallSetHistory(readings) ==
    /\ arg' = [fn |-> "setHistory", readings |-> readings]
    /\ ret' = setHistory(ret, uiReady, readings)
    /\ lastOp' = "setHistory"
    /\ PureUnchanged

\* initUI() on DOMContentLoaded, every element found in the page
CallInitUI ==
    /\ ~uiReady
    /\ uiReady' = TRUE
    /\ arg' = [fn |-> "initUI", readings |-> Null]
    /\ ret' = initUI(ret)
    /\ lastOp' = "initUI"
    /\ UNCHANGED <<analyzer, SCORING_MODE, clusterModel, loadPending, unsubscribe, live,
                   connected, series, scored, batch, now, hist, queue>>

NextUi ==
    \/ \E readings \in HistoryPool : CallSetHistory(readings)
    \/ CallInitUI

SpecUi == InitPage /\ [][NextUi]_vars

\* C28: when initUI runs right after a setHistory call that delivered a
\* non-empty history, the events table then shows that history's last ten
\* readings.
C28_PendingHistoryRendered ==
    [][(/\ lastOp' = "initUI"
        /\ arg.fn = "setHistory"
        /\ arg.readings.kind = "array"
        /\ arg.readings.v # <<>>)
          => ret'.tableBody = sliceLast(arg.readings.v, TABLE_ROWS)]_vars

\* a history delivered after initUI is shown: its last ten readings, oldest
\* on top
C28_RenderedAfterInit ==
    /\ uiReady
    /\ arg.fn = "setHistory"
    /\ arg.readings.kind = "array"
    /\ Len(arg.readings.v) = TABLE_ROWS + 1
    /\ ret.tableBody = Tail(arg.readings.v)

---------------------------------------------------------------------------
(* SpecSort: direct calls of sortDocsByDetectedTimestamp on snapshots of    *)
(* records with and without a usable timestamp                              *)

MaxSort == 3

\* records: timestamps 5, 3, 5 again and 0 under different candidate
\* fields, one behind a string that is no date, and two without any
SortPool ==
    {[id |-> 1, data |-> [ts |-> Num(5)]],
     [id |-> 2, data |-> [ts |-> Str(<<"x">>), time |-> Num(3)]],
     [id |-> 3, data |-> [createdAt |-> Num(5)]],
     [id |-> 4, data |-> [timestamp |-> Num(0)]],
     [id |-> 5, data |-> [HR |-> Arr(<<70>>)]],
     [id |-> 6, data |-> [ts |-> Null]]}

\* snapshots: sequences of distinct records
Snapshots ==
    UNION {{q \in [1..n -> SortPool] : \A i, j \in 1..n : i # j => q[i] # q[j]} :
              n \in 1..MaxSort}

\* sortDocsByDetectedTimestamp(docs)
SortDocs(docs) ==
    /\ arg' = [fn |-> "sortDocsByDetectedTimestamp", docs |-> docs]
    /\ ret' = sortDocsByDetectedTimestamp(docs)
    /\ lastOp' = "sortDocsByDetectedTimestamp"
    /\ PureUnchanged

NextSort ==
    /\ arg = NoCall
    /\ \E docs \in Snapshots : SortDocs(docs)

SpecSort == InitAnalyzer /\ [][NextSort]_vars

Sorted == arg.fn = "sortDocsByDetectedTimestamp"

\* the timestamp detected in a record: the value of the first candidate
\* field that holds a number, NoTs when there is none
DetectedTs(doc) ==
    LET S == {k \in 1..Len(TS_CANDIDATES) :
                 /\ TS_CANDIDATES[k] \in DOMAIN doc.data
                 /\ doc.data[TS_CANDIDATES[k]].kind = "number"}
    IN  IF S = {} THEN NoTs
        ELSE doc.data[TS_CANDIDATES[CHOOSE k \in S : \A j \in S : k <= j]].v[1]

WithTs(docs) == SelectSeq(docs, LAMBDA d : DetectedTs(d) # NoTs)

\* the position of record d in docs
PosIn(docs, d) == CHOOSE i \in 1..Len(docs) : docs[i] = d

\* C27: the result is a permutation of the input, ascending by detected
\* timestamp; with no usable timestamp at all it is the input; and the
\* records that have a timestamp come out in the order they would have
\* without the others: by timestamp, in arrival order where it is equal.
C27_SortedPermutation ==
    Sorted =>
        /\ Len(ret) = Len(arg.docs)
        /\ {ret[i] : i \in 1..Len(ret)} = {arg.docs[i] : i \in 1..Len(arg.docs)}
        /\ \A i, j \in 1..Len(WithTs(ret)) :
              i < j => \/ DetectedTs(WithTs(ret)[i]) < DetectedTs(WithTs(ret)[j])
                       \/ /\ DetectedTs(WithTs(ret)[i]) = DetectedTs(WithTs(ret)[j])
                          /\ PosIn(arg.docs, WithTs(ret)[i]) < PosIn(arg.docs, WithTs(ret)[j])
        /\ WithTs(arg.docs) = <<>> => ret = arg.docs

\* C27 witness: three records arrive as 5, none, 3 (the 3 behind an
\* unusable first field) and come out with 3 before 5
C27_Witness ==
    /\ Sorted
    /\ Len(arg.docs) = 3
    /\ arg.docs[1].id = 1 /\ arg.docs[2].id = 5 /\ arg.docs[3].id = 2
    /\ WithTs(ret) = <<arg.docs[3], arg.docs[1]>>

---------------------------------------------------------------------------
(* SpecExtract: direct calls of extractSensorArrays on records put together *)
(* from a pool of fields                                                    *)

MaxFields == 4

\* fields: several aliases of one channel, null values, an empty array, axes
\* of unequal length, an axis with an extreme component
FieldPool ==
    {<<"HR", Null>>, <<"HR", Arr(<<70>>)>>, <<"hr", Arr(<<60, 180>>)>>, <<"bpm", Arr(<<1>>)>>,
     <<"Temp", Arr(<<>>)>>,
     <<"Magnitude", Null>>, <<"Magnitude", Arr(<<12>>)>>, <<"mag", Arr(<<5>>)>>,
     <<"AcX", Arr(<<3, 0>>)>>, <<"AcY", Arr(<<4, 0, 1>>)>>, <<"AcZ", Arr(<<0, 0>>)>>,
     <<"az", Arr(<<0, HUGE>>)>>}

\* the records of at most MaxFields fields with distinct keys
Records ==
    {[k \in {f[1] : f \in fs} |-> (CHOOSE f \in fs : f[1] = k)[2]] :
        fs \in {x \in SUBSET FieldPool :
                  /\ Cardinality(x) <= MaxFields
                  /\ \A f, g \in x : f[1] = g[1] => f = g}}

\* extractSensorArrays(data)
Extract(data) ==
    /\ arg' = [fn |-> "extractSensorArrays", data |-> data]
    /\ ret' = <<extractSensorArrays(data)>>
    /\ lastOp' = "extractSensorArrays"
    /\ PureUnchanged

NextExtract ==
    /\ arg = NoCall
    /\ \E data \in Records : Extract(data)

SpecExtract == InitAnalyzer /\ [][NextExtract]_vars

Extracted == arg.fn = "extractSensorArrays"

\* the positions of the aliases that are keys of data, and of those whose
\* value is not null
KeysAmong(data, candidates) == {k \in 1..Len(candidates) : candidates[k] \in DOMAIN data}
ValuedAmong(data, candidates) ==
    {k \in KeysAmong(data, candidates) : data[candidates[k]].kind # "null"}
Least(S) == CHOOSE k \in S : \A j \in S : k <= j

\* the channel read from the first alias among the positions S, omitted
\* when S is empty
ReadFirst(data, candidates, S) ==
    IF S = {} THEN Absent
    ELSE [has |-> TRUE, v |-> toNumArr(data[candidates[Least(S)]])]

\* the per-index Euclidean norm of three axes, truncated to the shortest, 0
\* where the norm is not a finite double
NormOf(ax, ay, az) ==
    [i \in 1..Min2(Len(ax), Min2(Len(ay), Len(az))) |->
        IF HUGE \in {ax[i], ay[i], az[i]} THEN 0
        ELSE ISqrt(ax[i] * ax[i] + ay[i] * ay[i] + az[i] * az[i])]

\* the result when the aliases that count are those at the positions
\* Among(data, candidates)
ExtractedBy(Among(_, _)) ==
    LET data == arg.data
        F    == FIELD_CANDIDATES
        Axis(c) == ReadFirst(data, F[c], Among(data, F[c])).v
    IN  /\ ret[1].hr = ReadFirst(data, F.hr, Among(data, F.hr))
        /\ ret[1].spo2 = ReadFirst(data, F.spo2, Among(data, F.spo2))
        /\ ret[1].temp = ReadFirst(data, F.temp, Among(data, F.temp))
        /\ ret[1].mag =
              IF Among(data, F.magnitude) # {}
              THEN ReadFirst(data, F.magnitude, Among(data, F.magnitude))
              ELSE IF \A c \in {"acx", "acy", "acz"} : Among(data, F[c]) # {}
              THEN [has |-> TRUE, v |-> NormOf(Axis("acx"), Axis("acy"), Axis("acz"))]
              ELSE Absent

\* C26 as stated: each channel is read from the first alias that is a key
\* of the record and omitted when no alias is a key; magnitude is the norm
\* of the three axes only when no magnitude alias is a key and all three
\* axes resolve.
C26_FirstAliasThatIsKey ==
    Extracted => ExtractedBy(KeysAmong)

\* C26: each channel is read from the first alias, in alias-list order,
\* that is a key of the record with a non-null value, and is omitted when
\* there is none; magnitude is the per-index Euclidean norm of the three
\* axes, truncated to the shortest (0 where the norm is not finite), only
\* when no magnitude alias has a value and all three axes resolve.
C26_FirstAliasWithValue ==
    Extracted => ExtractedBy(ValuedAmong)

\* C26 witness: the magnitude alias is null and the axes, of lengths 2, 3
\* and 2, give the norms 5 and 0; no heart-rate alias is a key
C26_Witness ==
    /\ Extracted
    /\ "Magnitude" \in DOMAIN arg.data
    /\ ret[1].mag = [has |-> TRUE, v |-> <<5, 0>>]
    /\ ~ret[1].hr.has

---------------------------------------------------------------------------
(* SpecScore: direct calls of computeRiskScore, one sample each, under      *)
(* every strategy, on the analyzer the earlier calls have left              *)

ScoreSensors ==
    {[NoChannels EXCEPT !.spo2Arr = <<98>>],
     [NoChannels EXCEPT !.hrArr = <<60, 180>>, !.spo2Arr = <<90>>],
     [NoChannels EXCEPT !.spo2Arr = <<98>>, !.tempArr = <<39>>]}

\* the channels that hold a value at index idx
PresentAt(sensors, idx) == {k \in 1..Len(FeedOrder) : idx < Len(sensors[FeedOrder[k].arr])}

\* computeRiskScore(sensors, idx) with SCORING_MODE = mode
Score(mode, sensors, idx) ==
    /\ TotalFed < MaxFeed
    /\ arg' = [fn |-> "computeRiskScore", mode |-> mode, sensors |-> sensors,
               idx |-> idx, an |-> analyzer]
    /\ \E r \in {computeRiskScore(mode, analyzer, clusterModel, sensors, idx)} :
          /\ ret' = <<r>>
          /\ analyzer' = r.analyzer
    /\ hist' = IF mode \in {"recursive", "blend"}
               THEN [n \in SensorNames |->
                       IF \E k \in PresentAt(sensors, idx) : FeedOrder[k].name = n
                       THEN Append(hist[n],
                                   sensors[FeedOrder[CHOOSE k \in PresentAt(sensors, idx) :
                                                        FeedOrder[k].name = n].arr][idx + 1])
                       ELSE hist[n]]
               ELSE hist
    /\ lastOp' = "computeRiskScore"
    /\ UNCHANGED <<SCORING_MODE, clusterModel, loadPending, unsubscribe, live, uiReady,
                   connected, series, scored, batch, now, queue>>

NextScore ==
    \E mode \in Modes : \E sensors \in ScoreSensors :
       \E idx \in 0..(Max2(Len(sensors.hrArr), Len(sensors.spo2Arr)) - 1) :
          Score(mode, sensors, idx)

SpecScore == InitAnalyzer /\ [][NextScore]_vars

Scored == arg.fn = "computeRiskScore"

\* the analyzer after one addSample per channel present at the index, in
\* the order hr, spo2, accel, temp
FedOnce(an, sensors, idx) ==
    LET Feed(a, name, arr) == IF idx < Len(arr) THEN addSample(a, name, arr[idx + 1]) ELSE a
    IN  Feed(Feed(Feed(Feed(an, "hr", sensors.hrArr), "spo2", sensors.spo2Arr),
                  "accel", sensors.magArr), "temp", sensors.tempArr)

\* a buffer that an addSample of v leaves as it is: full, and holding v only
FullOf(an, name, v) ==
    /\ Len(an.sensors[name].buffer) = an.LONG_WINDOW
    /\ \A i \in 1..an.LONG_WINDOW : an.sensors[name].buffer[i] = v

\* the transition and the score the strategy of the call must give
ScoredAsStrategy ==
    /\ arg.mode \in {"weighted", "clustering"} => analyzer = arg.an
    /\ arg.mode \in {"recursive", "blend"}
          => analyzer = FedOnce(arg.an, arg.sensors, arg.idx)
    /\ arg.mode = "blend"
          => ret[1].score =
               (IF computeCombinedScore(arg.sensors, arg.idx).score = NaN THEN NaN
                ELSE clamp01((BLEND_ALPHA * computeRisk(analyzer).score
                              + (SCALE - BLEND_ALPHA)
                                * computeCombinedScore(arg.sensors, arg.idx).score) \div SCALE))

\* C25 as stated: scoring one sample changes the analyzer state if and only
\* if the strategy is recursive or blend; blend makes the transition of
\* recursive (one addSample per channel present) and returns
\* clamp01(alpha*recursive + (1-alpha)*weighted).
C25_ChangesIffRecursiveOrBlend ==
    Scored => /\ (analyzer # arg.an) <=> (arg.mode \in {"recursive", "blend"})
              /\ ScoredAsStrategy

\* C25: scoring one sample feeds the analyzer, one addSample per channel
\* present at that index, if and only if the strategy is recursive or
\* blend, blend making exactly the transition of recursive and returning
\* clamp01(alpha*recursive + (1-alpha)*weighted); weighted and clustering
\* leave the analyzer unchanged.  Feeding changes the analyzer state unless
\* every channel fed already holds LONG_WINDOW copies of the value fed.
C25_FeedsIffRecursiveOrBlend ==
    Scored => /\ ScoredAsStrategy
              /\ (analyzer # arg.an) => (arg.mode \in {"recursive", "blend"})
              /\ arg.mode \in {"recursive", "blend"}
                    => ((analyzer = arg.an)
                          <=> \A k \in PresentAt(arg.sensors, arg.idx) :
                                 FullOf(arg.an, FeedOrder[k].name,
                                        arg.sensors[FeedOrder[k].arr][arg.idx + 1]))

\* C25 witness: a blend call that fed two channels and changed the analyzer
C25_Witness ==
    /\ Scored
    /\ arg.mode = "blend"
    /\ Cardinality(PresentAt(arg.sensors, arg.idx)) = 2
    /\ analyzer # arg.an
    /\ ret[1].components.weighted > 0

\* a recursive call on a channel whose buffer is full of the value fed
C25_FullWitness ==
    /\ Scored
    /\ arg.mode = "recursive"
    /\ analyzer = arg.an

---------------------------------------------------------------------------
(* SpecCluster: direct calls of computeRiskClustering with a model loaded   *)

\* a centroid at point p (thousandths, standardized) with the given risk
Centroid(id, risk, p) == [cluster_id |-> id, risk_level |-> risk, centroid |-> p]

Origin == [i \in 1..10 |-> 0]
UnitScale == [i \in 1..10 |-> SCALE]

\* centroid lists: none; one far from every feature vector; a near and a far
\* one in both orders; two at the same point with different risks
CentroidLists ==
    {<<>>,
     <<Centroid(0, 900, [Origin EXCEPT ![5] = 30000])>>,
     <<Centroid(0, 900, [Origin EXCEPT ![1] = 3000]), Centroid(1, 200, Origin)>>,
     <<Centroid(0, 200, Origin), Centroid(1, 900, [Origin EXCEPT ![1] = 3000])>>,
     <<Centroid(0, 0, [Origin EXCEPT ![8] = 2000]), Centroid(1, 1000, [Origin EXCEPT ![8] = 2000])>>}

\* scalers: heart rate and temperature centred at 70 bpm and 37 degrees, with
\* a spread of 10 and of 2, or centred at 0 with a spread of 100 and of 10;
\* the variability features and the temperature slope have a wide spread
Scalers ==
    {[mean  |-> [Origin EXCEPT ![1] = 70000, ![8] = 37000],
      scale |-> [UnitScale EXCEPT ![1] = 10000, ![2] = 100000, ![3] = 100000,
                                  ![4] = 100000, ![8] = 2000, ![10] = 1000000]],
     [mean  |-> Origin,
      scale |-> [UnitScale EXCEPT ![1] = 100000, ![2] = 100000, ![3] = 100000,
                                  ![4] = 100000, ![8] = 10000, ![10] = 1000000]]}

ClusterModels ==
    {[loaded |-> TRUE, centroids |-> c, scaler_mean |-> sc.mean, scaler_scale |-> sc.scale] :
        c \in CentroidLists, sc \in Scalers}

ClusterHr == {<<>>, <<60>>, <<60, 80>>, <<80, 80>>, <<100, 80, 60>>}
ClusterTemp == {<<>>, <<37>>, <<36, 38>>, <<40, 40, 40>>}

\* computeRiskClustering({hrArr, [], [], tempArr}, idx) with clusterModel = model
Classify(model, hrArr, tempArr, idx) ==
    /\ arg' = [fn |-> "computeRiskClustering", model |-> model,
               sensors |-> [NoChannels EXCEPT !.hrArr = hrArr, !.tempArr = tempArr],
               idx |-> idx]
    /\ ret' = <<computeRiskClustering(model,
                    [NoChannels EXCEPT !.hrArr = hrArr, !.tempArr = tempArr], idx)>>
    /\ lastOp' = "computeRiskClustering"
    /\ PureUnchanged

\* one direct call per behaviour, at an index of the longest channel
NextCluster ==
    /\ arg = NoCall
    /\ \E model \in ClusterModels : \E hrArr \in ClusterHr : \E tempArr \in ClusterTemp :
          \E idx \in 0..(Max2(1, Max2(Len(hrArr), Len(tempArr))) - 1) :
             Classify(model, hrArr, tempArr, idx)

SpecCluster == InitAnalyzer /\ [][NextCluster]_vars

Classified == arg.fn = "computeRiskClustering"

\* the distance of centroid k of the call's model to the call's standardized
\* feature vector: the root of the sum of the squared differences
DistanceOf(call, k) ==
    LET x == normalizeFeature(computeWindowFeatures(call.sensors, call.idx), call.model)
        c == call.model.centroids[k].centroid
    IN  ISqrt(Sum([i \in 1..10 |-> (x[i] - c[i]) * (x[i] - c[i])]))

ConfidenceAt(d) == Max2(0, Min2(SCALE, SCALE - d \div MAX_DIST))
Between(x, a, b) == (a <= x /\ x <= b) \/ (b <= x /\ x <= a)

\* C22: with a model loaded, the result names a centroid whose Euclidean
\* distance d to the standardized feature vector is minimal over all
\* centroids, its confidence is clamp(1 - d/MAX_DIST, 0, 1) and its score is
\* riskLevel*confidence + 0.5*(1 - confidence); the score lies between 0.5
\* and that centroid's riskLevel and is 0.5 when d >= MAX_DIST or when there
\* is no centroid.
C22_NearestCentroidScore ==
    Classified =>
        IF arg.model.centroids = <<>> THEN ret[1].score = 500
        ELSE \E k \in 1..Len(arg.model.centroids) :
               /\ \A j \in 1..Len(arg.model.centroids) : DistanceOf(arg, k) <= DistanceOf(arg, j)
               /\ ret[1].components.nearest_cluster = arg.model.centroids[k].cluster_id
               /\ ret[1].components.cluster_risk = arg.model.centroids[k].risk_level
               /\ ret[1].components.confidence = ConfidenceAt(DistanceOf(arg, k))
               /\ ret[1].score = (arg.model.centroids[k].risk_level * ConfidenceAt(DistanceOf(arg, k))
                                  + 500 * (SCALE - ConfidenceAt(DistanceOf(arg, k)))) \div SCALE
               /\ Between(ret[1].score, 500, arg.model.centroids[k].risk_level)
               /\ DistanceOf(arg, k) >= MAX_DIST * SCALE => ret[1].score = 500

\* C22 witness: of two centroids the second is the nearer one and is
\* chosen, at a distance strictly between 0 and MAX_DIST, so that the score
\* lies strictly between its riskLevel and 0.5
C22_Witness ==
    /\ Classified
    /\ Len(arg.model.centroids) = 2
    /\ ret[1].components.nearest_cluster = 1
    /\ DistanceOf(arg, 2) < DistanceOf(arg, 1)
    /\ DistanceOf(arg, 2) > 0
    /\ ret[1].components.confidence > 0
    /\ ret[1].score > arg.model.centroids[2].risk_level
    /\ ret[1].score < 500

\* a call whose nearest centroid is at MAX_DIST or farther: score 0.5
C22_FarWitness ==
    /\ Classified
    /\ arg.model.centroids # <<>>
    /\ \A j \in 1..Len(arg.model.centroids) : DistanceOf(arg, j) >= MAX_DIST * SCALE
    /\ ret[1].score = 500

---------------------------------------------------------------------------
(* The application: snapshot callback, strategy switch, model load,         *)
(* stopSensorStream, listener error, initUI                                 *)

\* the analyzer channel each sensor array feeds
ChannelOf == [hr |-> "hr", spo2 |-> "spo2", temp |-> "temp", accel |-> "mag"]

\* the values flattenPacketDocs hands to addSample(name, .) for a batch:
\* every element of the channel's array, document after document
RECURSIVE FedBy(_, _, _)
FedBy(docs, name, k) ==
    IF k > Len(docs) THEN <<>>
    ELSE extractSensorArrays(docs[k].data)[ChannelOf[name]].v \o FedBy(docs, name, k + 1)

\* startSensorStream(): a new subscription, kept in unsubscribe
NewSub(liveSet) == IF liveSet = {} THEN 1 ELSE 1 + CHOOSE m \in liveSet : \A x \in liveSet : x <= m

\* setConnected(ok): nothing before initUI
setConnected(ok) == IF uiReady THEN (IF ok THEN "live" ELSE "down") ELSE connected

\* the snapshot callback of the live subscription, delivering docs, with t
\* the time Date.now() returns inside flattenPacketDocs
Snapshot(docs, t) ==
    /\ live # {}
    /\ t >= now
    /\ connected' = setConnected(TRUE)
    /\ lastOp' = "snapshot"
    /\ UNCHANGED <<arg, ret, queue>>
    /\ UNCHANGED <<SCORING_MODE, clusterModel, loadPending, unsubscribe, live, uiReady>>
    /\ IF docs = <<>>
       THEN UNCHANGED <<analyzer, series, scored, batch, now, hist>>
       ELSE \E docsForSeries \in {sortDocsByDetectedTimestamp(docs)} :
            \E r \in {flattenPacketDocs(docsForSeries, SCORING_MODE, analyzer,
                                        clusterModel, t)} :
                /\ analyzer' = r.an
                /\ series' = r.series
                /\ scored' = r.all
                /\ batch' = docsForSeries
                /\ now' = t
                /\ hist' = IF SCORING_MODE \in {"recursive", "blend"}
                           THEN [n \in SensorNames |->
                                   hist[n] \o FedBy(docsForSeries, n, 1)]
                           ELSE hist

\* handleScoringModeChange(newMode): what it does to the module's state.
\* lastOp tells whether the analyzer had been fed since its last reset when
\* the switch happened.
\* A slip: the switch starts the new stream without ending the one it has.
handleScoringModeChangeKeeps(newMode) ==
    /\ SCORING_MODE' = newMode
    /\ analyzer' = reset(analyzer)
    /\ hist' = EmptyHist
    /\ unsubscribe' = NewSub(live)
    /\ live' = live \cup {NewSub(live)}
    /\ lastOp' = IF TotalFed > 0 THEN "modeChangeMidStream" ELSE "modeChange"
    /\ UNCHANGED <<clusterModel, loadPending, uiReady, connected, series, scored,
                   batch, now>>

handleScoringModeChange(newMode) ==
    /\ SCORING_MODE' = newMode
    /\ analyzer' = reset(analyzer)
    /\ hist' = EmptyHist
    /\ LET rest == live \ {unsubscribe}
       IN  /\ unsubscribe' = NewSub(rest)
           /\ live' = rest \cup {NewSub(rest)}
    /\ lastOp' = IF TotalFed > 0 THEN "modeChangeMidStream" ELSE "modeChange"
    /\ UNCHANGED <<clusterModel, loadPending, uiReady, connected, series, scored,
                   batch, now>>

\* the change event of the selector, run with no callback in progress
HandleScoringModeChange(newMode) ==
    /\ handleScoringModeChange(newMode)
    /\ UNCHANGED <<arg, ret, queue>>

\* loadClusterModel() after its awaits: both documents exist and the model
\* is stored
loadClusterModel(m) ==
    /\ loadPending
    /\ loadPending' = FALSE
    /\ clusterModel' = m
    /\ lastOp' = "loadModel"
    /\ UNCHANGED <<analyzer, SCORING_MODE, unsubscribe, live, uiReady, connected,
                   series, scored, batch, now, hist>>

\* loadClusterModel() settles, with no callback in progress
LoadClusterModelOk(m) ==
    /\ loadClusterModel(m)
    /\ UNCHANGED <<arg, ret, queue>>

\* loadClusterModel() settles without a model (a document is missing or the
\* read throws and is caught)
LoadClusterModelFail ==
    /\ loadPending
    /\ loadPending' = FALSE
    /\ lastOp' = "loadModelFailed"
    /\ UNCHANGED <<arg, ret, queue>>
    /\ UNCHANGED <<analyzer, SCORING_MODE, clusterModel, unsubscribe, live, uiReady,
                   connected, series, scored, batch, now, hist>>

\* stopSensorStream(): what it does to the module's state
stopSensorStream ==
    /\ live' = IF unsubscribe # NoSub THEN live \ {unsubscribe} ELSE live
    /\ unsubscribe' = NoSub
    /\ lastOp' = "stop"
    /\ UNCHANGED <<analyzer, SCORING_MODE, clusterModel, loadPending, uiReady,
                   connected, series, scored, batch, now, hist>>

\* a call of stopSensorStream() with no callback in progress
StopSensorStream ==
    /\ stopSensorStream
    /\ UNCHANGED <<arg, ret, queue>>

\* A slip: the error callback also starts the baseline afresh.
ListenerErrorResets ==
    /\ live # {}
    /\ \E sub \in live : live' = live \ {sub}
    /\ connected' = setConnected(FALSE)
    /\ analyzer' = reset(analyzer)
    /\ hist' = EmptyHist
    /\ lastOp' = "error"
    /\ UNCHANGED <<arg, ret, queue>>
    /\ UNCHANGED <<SCORING_MODE, clusterModel, loadPending, unsubscribe,
                   uiReady, series, scored, batch, now>>

\* the error callback of a live subscription; the store ends a listener that
\* has failed
ListenerError ==
    /\ live # {}
    /\ \E sub \in live : live' = live \ {sub}
    /\ connected' = setConnected(FALSE)
    /\ lastOp' = "error"
    /\ UNCHANGED <<arg, ret, queue>>
    /\ UNCHANGED <<analyzer, SCORING_MODE, clusterModel, loadPending, unsubscribe,
                   uiReady, series, scored, batch, now, hist>>

\* initUI() on DOMContentLoaded
InitUI ==
    /\ ~uiReady
    /\ uiReady' = TRUE
    /\ lastOp' = "initUI"
    /\ UNCHANGED <<arg, ret, queue>>
    /\ UNCHANGED <<analyzer, SCORING_MODE, clusterModel, loadPending, unsubscribe,
                   live, connected, series, scored, batch, now, hist>>

\* Inputs of the bounded runs ------------------------------------------------

MaxDocs == 2
MaxHist == 2
NowVals == {MS_PER_DAY + 300}

Doc(id, data) == [id |-> id, data |-> data]

\* the documents a snapshot may hold: channels of unequal length, aliases
\* with axes instead of a magnitude, a document with no channel, and one
\* with an empty and a null channel
DocPool ==
    <<Doc(1, [HR |-> Arr(<<>>), SPO2 |-> Null, Magnitude |-> Arr(<<12>>)]),
      Doc(2, [HR |-> Arr(<<70>>), SPO2 |-> Arr(<<98, 90, 80>>), ts |-> Num(7)]),
      Doc(3, [hr |-> Arr(<<60, 180>>), bpm |-> Arr(<<1>>), Temp |-> Arr(<<37, 40>>),
              AcX |-> Arr(<<3, 0>>), AcY |-> Arr(<<4, 0>>), AcZ |-> Arr(<<0, 0>>),
              ts |-> Num(5)]),
      Doc(4, [note |-> Num(1), ts |-> Num(9)])>>

\* a snapshot lists documents in the order of their ids
RECURSIVE Pick(_, _)
Pick(ids, k) ==
    IF k > Len(DocPool) THEN <<>>
    ELSE (IF k \in ids THEN <<DocPool[k]>> ELSE <<>>) \o Pick(ids, k + 1)

Batches == {Pick(ids, 1) : ids \in {x \in SUBSET (1..Len(DocPool)) : Cardinality(x) <= MaxDocs}}

\* a trained model: z-space centroids with their risk levels, and the scaler
ModelPool ==
    {[loaded |-> TRUE,
      centroids |-> <<[cluster_id |-> 0, risk_level |-> 700,
                       centroid |-> <<0, 6000, 9000, 2000, 0, 0, 0, 0, 0, 0>>],
                      [cluster_id |-> 1, risk_level |-> 210,
                       centroid |-> <<0, 0, 0, 0, 0, 0, 0, 0, 0, 0>>]>>,
      scaler_mean  |-> <<70000, 0, 0, 0, 0, 0, 0, 37000, 0, 0>>,
      scaler_scale |-> <<50000, 50000, 50000, 50000, 50000, 50000, 50000, 50000,
                         50000, 50000>>]}

\* the values the scoring-mode selector of the page offers
ModeOptions == Modes

Init ==
    /\ analyzer = RecursiveAnalyzer([longWindow |-> LongWindow,
                                     shortWindow |-> ShortWindow,
                                     minSamples |-> MinSamples])
    /\ InitApp

Next ==
    \/ \E docs \in Batches, t \in NowVals : TotalFed < MaxHist /\ Snapshot(docs, t)
    \/ \E newMode \in ModeOptions : HandleScoringModeChange(newMode)
    \/ \E m \in ModelPool : LoadClusterModelOk(m)
    \/ LoadClusterModelFail
    \/ StopSensorStream
    \/ ListenerError
    \/ InitUI

Spec == Init /\ [][Next]_vars

\* The points of a series as times in ms, as new Date(timestamp) reads them
TimeOf(point) == DateParse(point.timestamp)

\* C1: for every strategy and every record, with channels absent or of
\* unequal lengths, each score computeRiskScore returns for a sample index
\* in [0, L) is a number in [0, 1].
C1_ScoresInUnitRange ==
    \A k \in 1..Len(scored) :
        /\ scored[k].score # NaN
        /\ 0 <= scored[k].score
        /\ scored[k].score <= SCALE

\* C3: a strategy switch, whatever history the analyzer holds, leaves every
\* channel with an empty buffer, zeroed statistics and anomalyScore = 0, and
\* leaves the loaded cluster model as it was.
C3_SwitchResetsAnalyzer ==
    [][(\E newMode \in Modes : HandleScoringModeChange(newMode))
          => /\ \A n \in SensorNames : analyzer'.sensors[n] = initSensor
             /\ clusterModel' = clusterModel]_vars

\* C3 witness: a switch made mid-stream, with a model loaded, samples of
\* every channel fed since the last reset, and a nonzero anomaly score
\* rendered before the switch.
C3_Witness ==
    /\ lastOp = "modeChangeMidStream"
    /\ clusterModel.loaded
    /\ \E k \in 1..Len(scored) :
          /\ scored[k].method = "recursive"
          /\ scored[k].score # NaN
          /\ scored[k].score > 0
    /\ \A n \in SensorNames : analyzer.sensors[n] = initSensor

\* C6: with no cluster model loaded, the clustering strategy returns score
\* 0.5 together with confidence 0, for every sample.  (A model, once
\* loaded, stays: while none is loaded every clustering point was scored
\* without one.)
C6_NoModelIsUnknown ==
    ~clusterModel.loaded =>
        \A k \in 1..Len(scored) :
            scored[k].method = "clustering" =>
                /\ scored[k].score = 500
                /\ "confidence" \in DOMAIN scored[k].components
                /\ scored[k].components.confidence = 0

\* C8: the timestamps flattenPacketDocs returns are non-decreasing in output
\* order, for any batch, records of different sample counts and skipped
\* records included.
C8_TimestampsNonDecreasing ==
    \A k \in 1..(Len(series) - 1) : TimeOf(series[k]) <= TimeOf(series[k + 1])

\* C9: consecutive points of the output differ by exactly
\* INTRA_PACKET_INTERVAL_MS and the last one carries the time now: the k-th
\* point from the end has timestamp now - k * INTRA_PACKET_INTERVAL_MS.
C9_EquallySpacedEndingNow ==
    \A k \in 1..Len(series) :
        TimeOf(series[k]) = now - (Len(series) - k) * INTRA_PACKET_INTERVAL_MS

\* the sensors argument flattenPacketDocs built for the point
SensorsOf(point) == SensorArgs(extractSensorArrays(batch[point.d + 1].data))

\* the component of the weighted score each sensor array decides
ComponentOf == [hrArr |-> "hrv", spo2Arr |-> "spo2", magArr |-> "accel", tempArr |-> "temp"]

\* C12: at a sample index at or beyond a channel's own length the channel
\* counts as absent, never as a zero reading: its component of the weighted
\* score is the one an absent channel gives, and the analyzer holds only
\* samples that channels had (the newest LONG_WINDOW of them).
C12_ShortChannelIsAbsent ==
    /\ \A k \in 1..Len(scored) : \A c \in DOMAIN ComponentOf :
          (scored[k].method = "weighted" /\ scored[k].i >= Len(SensorsOf(scored[k])[c]))
          => scored[k].components[ComponentOf[c]]
               = computeCombinedScore(NoChannels, scored[k].i).components[ComponentOf[c]]
    /\ \A n \in SensorNames :
          analyzer.sensors[n].buffer = sliceLast(hist[n], analyzer.LONG_WINDOW)

Stopped == unsubscribe = NoSub /\ live = {}

\* C18: once stopSensorStream has cancelled the subscription, it stays
\* cancelled whatever operation follows (a strategy switch included), so that
\* no batch is processed afterwards.
C18_NoBatchAfterStop ==
    [][Stopped => Stopped']_vars

\* what the error callback must leave alone: the analyzer (every channel's
\* buffer and statistics), the strategy, the cluster model, and with them
\* the rendered series and the subscription handle
ErrorLeavesCore ==
    /\ analyzer' = analyzer
    /\ SCORING_MODE' = SCORING_MODE
    /\ clusterModel' = clusterModel
    /\ UNCHANGED <<loadPending, unsubscribe, uiReady, series, scored, batch, now, hist>>

\* C17 as stated: a listener failure sets the connectivity indicator to down
\* and changes nothing else.
C17_ErrorSetsDown ==
    [][ListenerError => connected' = "down" /\ ErrorLeavesCore]_vars

\* C17: a listener failure sets the connectivity indicator to down once
\* initUI has run, and leaves it as it is before that; in both cases the
\* analyzer, the strategy and the cluster model are the same after the
\* error callback as before it.
C17_ErrorOnlyTouchesIndicator ==
    [][ListenerError
         => /\ connected' = (IF uiReady THEN "down" ELSE connected)
            /\ ErrorLeavesCore]_vars

\* C17 witness: a listener has failed with the indicator showing, samples
\* in the analyzer's buffers and a cluster model loaded
C17_Witness ==
    /\ lastOp = "error"
    /\ connected = "down"
    /\ clusterModel.loaded
    /\ \E n \in SensorNames : analyzer.sensors[n].buffer # <<>>

---------------------------------------------------------------------------
(* SpecBig: snapshots whose packets hold about MAX_POINTS samples, under    *)
(* every strategy                                                           *)

BigLen == 601

\* a packet with n heart-rate samples 70, 72, 74, 70, ...
Packet(id, n) == Doc(id, [HR |-> Arr([i \in 1..n |-> 70 + 2 * ((i - 1) % 3)])])

\* a packet whose channels differ in length
Uneven(id, n, m) ==
    Doc(id, [HR |-> Arr([i \in 1..n |-> 70 + 2 * ((i - 1) % 3)]),
             SPO2 |-> Arr([i \in 1..m |-> 95 + (i % 4)])])

\* one packet above, one at, and one far below MAX_POINTS; two packets that
\* pass MAX_POINTS together; a packet followed by a document with no channel
BigBatches ==
    {<<Packet(1, BigLen)>>,
     <<Packet(1, BigLen - 1)>>,
     <<Packet(1, 3)>>,
     <<Packet(1, BigLen \div 2), Uneven(2, 2, BigLen - BigLen \div 2)>>,
     <<Uneven(1, 3, 2), Doc(2, [note |-> Num(1)])>>}

NextBig ==
    \/ \E docs \in BigBatches, t \in NowVals : TotalFed < MaxHist /\ Snapshot(docs, t)
    \/ \E newMode \in Modes : HandleScoringModeChange(newMode)

SpecBig == Init /\ [][NextBig]_vars

\* C30: at most one subscription delivers at any time, and it is the one
\* whose handle unsubscribe holds; a strategy switch leaves exactly the
\* subscription it has just created, and a stop leaves none.
C30_OneSubscription ==
    /\ [](Cardinality(live) <= 1 /\ live \subseteq {unsubscribe})
    /\ [][/\ lastOp' \in {"modeChange", "modeChangeMidStream"} => live' = {unsubscribe'}
          /\ lastOp' = "stop" => live' = {}]_vars

\* C30 witness: a strategy switch in mid-stream has replaced the stream that
\* had delivered a batch.
C30_Witness ==
    /\ lastOp = "modeChangeMidStream"
    /\ batch # <<>>
    /\ live = {unsubscribe}

---------------------------------------------------------------------------
(* SpecRepeat: the same packets delivered again in snapshot after snapshot, *)
(* under every strategy, with stops and listener errors in between          *)

MaxRefed == 9

\* a packet of four heart rates that ends on the value it starts with, one
\* whose channels differ in length, and one followed by a document with no
\* channel
RepeatBatches ==
    {<<Packet(1, 4)>>,
     <<Uneven(1, 2, 5)>>,
     <<Uneven(1, 3, 2), Doc(2, [note |-> Num(1)])>>}

NextRepeat ==
    \/ \E docs \in RepeatBatches, t \in NowVals : TotalFed < MaxRefed /\ Snapshot(docs, t)
    \/ \E newMode \in Modes : HandleScoringModeChange(newMode)
    \/ StopSensorStream
    \/ ListenerError

SpecRepeat == Init /\ [][NextRepeat]_vars

\* C29: nothing is deduplicated across batches: in recursive or blend mode
\* every channel's buffer is as long as the number of that channel's samples
\* in the batches delivered since the last reset, up to LONG_WINDOW.
C29_EveryDeliveryIsFed ==
    SCORING_MODE \in {"recursive", "blend"}
        => \A n \in SensorNames :
              Len(analyzer.sensors[n].buffer) = Min2(analyzer.LONG_WINDOW, Len(hist[n]))

\* C29 witness: the packet of four heart rates has been delivered three
\* times since the reset; its twelve samples have filled the buffer.
C29_Witness ==
    /\ lastOp = "snapshot"
    /\ SCORING_MODE = "recursive"
    /\ batch = <<Packet(1, 4)>>
    /\ hist["hr"] = FedBy(batch, "hr", 1) \o FedBy(batch, "hr", 1) \o FedBy(batch, "hr", 1)
    /\ Len(analyzer.sensors["hr"].buffer) = analyzer.LONG_WINDOW

\* L of a document: the largest length among its resolved channels
LengthOf(doc) ==
    LET sensors == extractSensorArrays(doc.data)
        lens    == {Len(sensors[c].v) : c \in {"hr", "spo2", "temp", "mag"}}
    IN  CHOOSE m \in lens : \A x \in lens : x <= m

\* the (document, sample) pairs of a batch in output order: document k
\* (0-based k - 1) contributes the indices 0..L-1, none when L = 0
RECURSIVE SamplesOf(_, _)
SamplesOf(docs, k) ==
    IF k > Len(docs) THEN <<>>
    ELSE [i \in 1..LengthOf(docs[k]) |-> <<k - 1, i - 1>>] \o SamplesOf(docs, k + 1)

TagsOf(points) == [k \in 1..Len(points) |-> <<points[k].d, points[k].i>>]

\* C7 as stated: a batch of a single record whose longest channel has L
\* elements produces exactly L points, strictly increasing in time, spaced
\* INTRA_PACKET_INTERVAL_MS apart, the last one the newest.
C7_SingleRecordAllPoints ==
    Len(batch) = 1 =>
        /\ Len(series) = LengthOf(batch[1])
        /\ \A k \in 1..(Len(series) - 1) :
              TimeOf(series[k + 1]) = TimeOf(series[k]) + INTRA_PACKET_INTERVAL_MS
        /\ \A k \in 1..Len(series) : TimeOf(series[k]) <= TimeOf(series[Len(series)])

\* C7, amended: a batch of a single record whose longest channel has L
\* elements produces exactly min(L, MAX_POINTS) points, strictly increasing
\* in time, spaced INTRA_PACKET_INTERVAL_MS apart, the last one the newest
\* (and stamped now).
C7_SingleRecordLastPoints ==
    Len(batch) = 1 =>
        /\ Len(series) = Min2(LengthOf(batch[1]), MAX_POINTS)
        /\ \A k \in 1..(Len(series) - 1) :
              TimeOf(series[k + 1]) = TimeOf(series[k]) + INTRA_PACKET_INTERVAL_MS
        /\ \A k \in 1..Len(series) : TimeOf(series[k]) <= TimeOf(series[Len(series)])
        /\ series # <<>> => TimeOf(series[Len(series)]) = now

\* C7 witness: a single record longer than MAX_POINTS has been rendered
C7_Witness ==
    /\ lastOp = "snapshot"
    /\ Len(batch) = 1
    /\ LengthOf(batch[1]) > MAX_POINTS
    /\ Len(series) = MAX_POINTS

\* C10: the output has at most MAX_POINTS elements and is the last
\* min(N, MAX_POINTS) of the N scored samples in their order; each record
\* contributes exactly L samples, L the largest length among its resolved
\* channels, and a record with no non-empty channel contributes none.
C10_LastMaxPointsOfAllSamples ==
    LET N == Len(scored)
        K == Min2(N, MAX_POINTS)
    IN  /\ Len(series) <= MAX_POINTS
        /\ series = SubSeq(scored, N - K + 1, N)
        /\ TagsOf(scored) = SamplesOf(batch, 1)

\* C10 witness: two records that pass MAX_POINTS together, the second with
\* channels of different lengths, have been rendered
C10_Witness ==
    /\ lastOp = "snapshot"
    /\ Len(batch) = 2
    /\ Len(scored) > MAX_POINTS
    /\ Len(series) = MAX_POINTS
    /\ series[1].d = 0
    /\ series[MAX_POINTS].d = 1

---------------------------------------------------------------------------
(* SpecLoop: the event loop.  Snapshots, selector changes, the settled     *)
(* model load and stopSensorStream calls arrive at any time and wait in     *)
(* queue; a task runs when no callback is in progress.  The snapshot        *)
(* callback is followed sample by sample: each sample reads SCORING_MODE    *)
(* and clusterModel as they are when it is scored.                          *)

MaxQueue == 2

LoopPool ==
    <<Doc(1, [HR |-> Arr(<<60, 180>>)]),
      Doc(2, [HR |-> Arr(<<70>>), SPO2 |-> Arr(<<98, 90>>)]),
      Doc(3, [note |-> Num(1)])>>

LoopBatches == {<<LoopPool[1]>>, <<LoopPool[3], LoopPool[2]>>}

Task(kind) == [kind |-> kind, mode |-> "", docs |-> <<>>, model |-> NoModel, sub |-> NoSub]

\* A slip: the callback awaits between samples, so other tasks run while a
\* batch is being flattened.
Yielding == TRUE

\* no callback is in progress: the snapshot callback has no await, it runs
\* from its first statement to its return
Idle == arg.fn # "flattenPacketDocs"

\* at most one task of a kind waits at a time
Enqueue(task) ==
    /\ Len(queue) < MaxQueue
    /\ \A k \in 1..Len(queue) : queue[k].kind # task.kind
    /\ queue' = Append(queue, task)
    /\ UNCHANGED <<analyzer, SCORING_MODE, clusterModel, loadPending, unsubscribe, live,
                   uiReady, connected, series, scored, batch, now, hist, lastOp, arg, ret>>

\* the store has a snapshot for a live subscription
SnapshotArrives(docs) ==
    /\ TotalFed < MaxHist
    /\ \E sub \in live : Enqueue([Task("snapshot") EXCEPT !.docs = docs, !.sub = sub])

\* the user picks a strategy in the selector
ModeSelected(newMode) == Enqueue([Task("mode") EXCEPT !.mode = newMode])

\* the reads of loadClusterModel() come back
ModelArrives(m) ==
    /\ loadPending
    /\ Enqueue([Task("model") EXCEPT !.model = m])

\* some caller is about to call stopSensorStream()
StopCalled == Enqueue(Task("stop"))

Dequeue(kind) ==
    /\ Idle
    /\ queue # <<>>
    /\ Head(queue).kind = kind
    /\ queue' = Tail(queue)

RunMode ==
    /\ Dequeue("mode")
    /\ handleScoringModeChange(Head(queue).mode)
    /\ UNCHANGED <<arg, ret>>

RunModel ==
    /\ Dequeue("model")
    /\ loadClusterModel(Head(queue).model)
    /\ UNCHANGED <<arg, ret>>

RunStop ==
    /\ Dequeue("stop")
    /\ stopSensorStream
    /\ UNCHANGED <<arg, ret>>

\* the snapshot callback starts (a cancelled subscription gets no callback):
\* setConnected, sortDocsByDetectedTimestamp, and flattenPacketDocs up to
\* its loop.  arg keeps the strategy, model and analyzer of that moment and
\* the number of tasks that were already waiting.
StartBatch(t) ==
    /\ Dequeue("snapshot")
    /\ t >= now
    /\ UNCHANGED <<analyzer, SCORING_MODE, clusterModel, loadPending, unsubscribe, live,
                   uiReady, series, scored, batch, now, hist>>
    /\ IF Head(queue).sub \notin live
       THEN UNCHANGED <<connected, lastOp, arg, ret>>
       ELSE /\ connected' = setConnected(TRUE)
            /\ lastOp' = "batchStart"
            /\ ret' = <<>>
            /\ arg' = [fn |-> "flattenPacketDocs",
                       docs |-> sortDocsByDetectedTimestamp(Head(queue).docs),
                       t |-> t, dIdx |-> 0, i |-> 0, mode |-> SCORING_MODE,
                       model |-> clusterModel, an |-> analyzer,
                       waiting |-> Len(queue) - 1]

\* one iteration of the loops of flattenPacketDocs: a document without
\* samples is skipped, otherwise sample i of document dIdx is scored
ScoreSample ==
    /\ arg.fn = "flattenPacketDocs"
    /\ arg.dIdx < Len(arg.docs)
    /\ lastOp' = "scoreSample"
    /\ UNCHANGED <<SCORING_MODE, clusterModel, loadPending, unsubscribe, live, uiReady,
                   connected, series, scored, batch, now, queue>>
    /\ \E sensors \in {extractSensorArrays(arg.docs[arg.dIdx + 1].data)} :
       \E L \in {SampleCount(sensors)} :
          IF L = 0
          THEN /\ arg' = [arg EXCEPT !.dIdx = @ + 1, !.i = 0]
               /\ UNCHANGED <<analyzer, ret, hist>>
          ELSE \E acc \in {ScoreOne([mode |-> SCORING_MODE, model |-> clusterModel,
                                      sensors |-> SensorArgs(sensors), now |-> arg.t,
                                      docsCount |-> Len(arg.docs), dIdx |-> arg.dIdx,
                                      L |-> L],
                                     arg.i, [an |-> analyzer, out |-> ret])} :
               /\ analyzer' = acc.an
               /\ ret' = acc.out
               /\ hist' = IF SCORING_MODE \in {"recursive", "blend"}
                          THEN [n \in SensorNames |->
                                  IF HasAt(sensors[ChannelOf[n]].v, arg.i)
                                  THEN Append(hist[n], sensors[ChannelOf[n]].v[arg.i + 1])
                                  ELSE hist[n]]
                          ELSE hist
               /\ arg' = IF arg.i + 1 < L THEN [arg EXCEPT !.i = @ + 1]
                         ELSE [arg EXCEPT !.dIdx = @ + 1, !.i = 0]

\* the loops are over: series.slice(-MAX_POINTS) is returned and rendered
FinishBatch ==
    /\ arg.fn = "flattenPacketDocs"
    /\ arg.dIdx >= Len(arg.docs)
    /\ arg' = [arg EXCEPT !.fn = "flattened"]
    /\ ret' = <<>>
    /\ series' = sliceLast(ret, MAX_POINTS)
    /\ scored' = ret
    /\ batch' = arg.docs
    /\ now' = arg.t
    /\ lastOp' = "batchDone"
    /\ UNCHANGED <<analyzer, SCORING_MODE, clusterModel, loadPending, unsubscribe, live,
                   uiReady, connected, hist, queue>>

NextLoop ==
    \/ \E docs \in LoopBatches : SnapshotArrives(docs)
    \/ \E newMode \in ModeOptions : ModeSelected(newMode)
    \/ \E m \in ModelPool : ModelArrives(m)
    \/ StopCalled
    \/ RunMode
    \/ RunModel
    \/ RunStop
    \/ \E t \in NowVals : StartBatch(t)
    \/ ScoreSample
    \/ FinishBatch

SpecLoop == Init /\ [][NextLoop]_vars

\* C16: the samples of one batch are all scored under the strategy and the
\* cluster model of the moment the batch started: while a batch is being
\* flattened the strategy and the model do not change and no other batch
\* starts, and the finished batch is what flattenPacketDocs gives for that
\* strategy, that model and the analyzer as it was at the start.
C16_BatchRunsToCompletion ==
    /\ [](lastOp = "batchDone"
            => /\ SCORING_MODE = arg.mode
               /\ clusterModel = arg.model
               /\ \A r \in {flattenPacketDocs(arg.docs, arg.mode, arg.an, arg.model, arg.t)} :
                     scored = r.all /\ series = r.series /\ analyzer = r.an)
    /\ [][arg.fn = "flattenPacketDocs"
            => /\ SCORING_MODE' = SCORING_MODE
               /\ clusterModel' = clusterModel
               /\ arg'.docs = arg.docs
               /\ arg'.t = arg.t]_vars

\* a batch of several samples has run to completion while a switch to
\* another strategy and the cluster model, both arrived after it started,
\* were waiting
C16_Witness ==
    /\ lastOp = "batchDone"
    /\ Len(scored) >= 2
    /\ arg.waiting = 0
    /\ \E k \in 1..Len(queue) : queue[k].kind = "mode" /\ queue[k].mode # SCORING_MODE
    /\ \E k \in 1..Len(queue) : queue[k].kind = "model" /\ queue[k].model # clusterModel

====
